---- MODULE Spec2Model ----
(***************************************************************************)
(* Lookup subsystem of the vocabulary extractor: the tiered dictionary     *)
(* cache (dictionary/cache.py), the dictionary service manager             *)
(* (dictionary/manager.py) and the HTTP providers (dictionary/service.py). *)
(*                                                                         *)
(* Time is an integer clock `now` (time.time()); the time-valued           *)
(* parameters (TTLs, recovery time) are scaled to that clock.              *)
(* A Python None is modelled by a reserved value of the same type:         *)
(* NoValue for a missing cached string, NoTime for a missing timestamp     *)
(* or TTL.                                                                 *)
(***************************************************************************)
EXTENDS Integers, Sequences, FiniteSets, TLC

(***************************************************************************)
(* Bounds of the model                                                     *)
(***************************************************************************)
\* latest clock value the model reaches
MaxTime == 3
\* longest word list handed to batch_lookup
MaxBatch == 2
\* Spec: register_service calls, lookups, enable/disable calls, clock advances
\* and operations in all that one run holds
MaxRegs == 2
MaxLookups == 3
MaxAdmin == 1
MaxTicks == 1
MaxTotal == 4
\* SpecCached: the same, for lookups through the cache
CachedRegs == 1
CachedLookups == 3
CachedAdmin == 1
CachedTicks == 2
CachedTotal == 3

\* largest max_retries and retry_delay of a provider
MaxRetries == 2
MaxDelay == 2

\* calls of _make_request in a run
MaxRequests == 1

\* a MemoryCache used by concurrent callers: its largest max_size, the calls
\* made and the clock changes
ThreadMaxSize == 2
ThreadOps == 3
ThreadTicks == 1

\* operations in a run of a manager used by concurrent callers
SharedRegs == 1
SharedLookups == 3
SharedAdmin == 1
SharedTicks == 1
SharedTotal == 5

\* register_service calls and lookups in a run of a manager whose callers
\* record outcomes concurrently
RecordingRegs == 1
RecordingLookups == 3

\* max_retries and retry_delay of the EasyPronunciationService instances a
\* manager is given, and the operations of a run of that manager
EasyRetries == 0
EasyDelay == 1
EasyRegs == 2
EasyLookups == 2
EasyTicks == 1
EasyTotal == 4
\* SpecHealth: operations of a run that mixes single-word lookups, batch
\* lookups, enable_service and disable_service
HealthRegs == 2
HealthLookups == 3
HealthAdmin == 1
HealthTicks == 1
HealthTotal == 4
\* SpecBatch: register_service calls and batch lookups of a run
BatchRegs == 2
BatchLookups == 1
BatchTotal == 3
\* SpecResume: the same, for lookups that follow one another through the cache
ResumeRegs == 1
ResumeLookups == 2
ResumeAdmin == 1
ResumeTicks == 1
ResumeTotal == 4
\* SpecRegister: register_service calls and lookups of a run
OrderRegs == 3
OrderLookups == 1
OrderTotal == 4
\* SpecMemory: largest max_size of a MemoryCache, its operations and clock advances
MemMaxSize == 2
MemOps == 4
MemTicks == 1
\* SpecTiers: operations on the two tiers and clock advances of a run
TiersOps == 3
TiersTicks == 1
\* SpecStore: operations on a PersistentCache whose file can fail, and clock
\* advances
StoreOps == 3
StoreTicks == 1
\* SpecRestart: the same, for a PersistentCache whose file never fails
RestartOps == 4
RestartTicks == 1
\* a PersistentCache used by concurrent callers: the calls made and the clock
\* changes
PersistOps == 3
PersistTicks == 1
\* a DictionaryCache used by concurrent callers: the calls made and the clock
\* changes
CoherentOps == 3
CoherentTicks == 1
\* a manager with its cache used by concurrent callers: register_service
\* calls, lookups and clock changes
LockedRegs == 1
LockedLookups == 2
LockedTicks == 1
\* the concurrent batch lookup of a provider: threads of its pool, longest
\* word list, calls
PoolWorkers == 2
PoolLen == 3
PoolLookups == 2
\* SpecTiered: largest memory_cache_size of a DictionaryCache, the cache
\* operations and clock advances of a run
TieredMaxSize == 2
TieredOps == 3
TieredTicks == 1
\* the longest TTL an entry is stored with directly
MaxTTL == 1

(***************************************************************************)
(* Parameters of the program, scaled to the integer clock                  *)
(***************************************************************************)
\* DictionaryCache(memory_ttl=3600): shorter than one clock unit
MemoryTTL == 0
\* DictionaryCache(persistent_ttl=86400*7): longer than the memory TTL
PersistentTTL == 1
\* config['recovery_time'] = 300
RecoveryTime == 1
\* config['failure_threshold'] = 5
FailureThreshold == 2
\* DictionaryCache(memory_cache_size=5000)
MemoryCacheSize == 5000

(***************************************************************************)
(* Values                                                                  *)
(***************************************************************************)
NoValue == "None"
NoTime == -1

\* provider names that register_service may be called with
Names == {"p1", "p2"}

\* words handed to the manager; "A" is a spelling of "a" that is not normalized
Words == {"a", "A", "b"}

\* str.lower().strip() on the words of the model
Lower(w) == IF w = "A" THEN "a" ELSE w

\* strings a provider can return for one query
Values == {"", "x", "y"}

\* the words the routing specification looks up ("" is no word at all)
RoutingWords == {"a", ""}

\* the strings a provider returns in the routing specification
RoutingValues == {"", "x"}

\* strings a provider can return inside a batch result
BatchValues == {"", "x"}

\* ServicePriority
PRIMARY == 1
SECONDARY == 2
FALLBACK == 3
Priorities == {PRIMARY, SECONDARY, FALLBACK}

\* ServiceStatus
ACTIVE == "active"
DEGRADED == "degraded"
FAILED == "failed"
DISABLED == "disabled"

(***************************************************************************)
(* Python dict helpers: a dict whose iteration order does not matter is a  *)
(* function; a dict whose order matters is a sequence of keys plus a       *)
(* function.                                                               *)
(***************************************************************************)
EmptyMap == [x \in {} |-> 0]

Put(f, k, v) == [x \in (DOMAIN f) \cup {k} |-> IF x = k THEN v ELSE f[x]]

Remove(f, k) == [x \in (DOMAIN f) \ {k} |-> f[x]]

\* the set of elements of a sequence
Range(s) == {s[i] : i \in 1..Len(s)}

(***************************************************************************)
(* CacheEntry                                                              *)
(***************************************************************************)
CacheEntry(data, timestamp, ttl) ==
    [data |-> data, timestamp |-> timestamp, ttl |-> ttl]

\* is_expired with >= for >: an entry is gone in the last instant of its TTL
IsExpiredAtTTL(e, t) ==
    IF e.ttl = NoTime THEN FALSE ELSE t - e.timestamp >= e.ttl

\* CacheEntry.is_expired at clock t
IsExpired(e, t) ==
    IF e.ttl = NoTime THEN FALSE ELSE t - e.timestamp > e.ttl

(***************************************************************************)
(* The cache state threaded through the cache operators:                   *)
(*   mem   MemoryCache._cache          key -> CacheEntry                   *)
(*   acc   MemoryCache._access_order   sequence of [k, t] in dict order    *)
(*   pers  PersistentCache._cache      key -> CacheEntry                   *)
(*   file  the pickled cache file      key -> CacheEntry                   *)
(*   max_size, default_ttl             MemoryCache parameters              *)
(*   used  history of _access_order: its keys from the one assigned        *)
(*         longest ago to the one assigned last                            *)
(***************************************************************************)
\* the history after _access_order[k] is assigned
Touch(used, k) == SelectSeq(used, LAMBDA e : e # k) \o <<k>>

\* the history after the keys of gone are deleted from _access_order
Forget(used, gone) == SelectSeq(used, LAMBDA e : e \notin gone)

AccHas(acc, k) == \E i \in 1..Len(acc) : acc[i].k = k

\* _access_order[k] = t: an existing key keeps its place, a new one goes last
AccSet(acc, k, t) ==
    IF AccHas(acc, k)
    THEN [i \in 1..Len(acc) |-> IF acc[i].k = k THEN [k |-> k, t |-> t] ELSE acc[i]]
    ELSE Append(acc, [k |-> k, t |-> t])

\* del _access_order[k]
AccDel(acc, k) == SelectSeq(acc, LAMBDA e : e.k # k)

\* min(_access_order.keys(), key=...): the first key with the oldest access time
OldestKey(acc) ==
    LET i == CHOOSE i \in 1..Len(acc) :
                 \A j \in 1..Len(acc) :
                     \/ acc[i].t < acc[j].t
                     \/ (acc[i].t = acc[j].t /\ i <= j)
    IN acc[i].k

\* MemoryCache._evict_lru
EvictLRU(c) ==
    IF c.acc = <<>> THEN c
    ELSE LET oldest == OldestKey(c.acc)
         IN [c EXCEPT !.mem = IF oldest \in DOMAIN c.mem THEN Remove(c.mem, oldest)
                                ELSE c.mem,
                      !.acc = AccDel(c.acc, oldest),
                      !.used = Forget(c.used, {oldest})]

\* MemoryCache.get: the cache afterwards and the value (NoValue for None)
MemGet(c, key, t) ==
    IF key \notin DOMAIN c.mem THEN [c |-> c, val |-> NoValue]
    ELSE IF IsExpired(c.mem[key], t)
         THEN [c |-> [c EXCEPT !.mem = Remove(c.mem, key),
                               !.acc = AccDel(c.acc, key),
                               !.used = Forget(c.used, {key})],
               val |-> NoValue]
         ELSE [c |-> [c EXCEPT !.acc = AccSet(c.acc, key, t),
                               !.used = Touch(c.used, key)],
               val |-> c.mem[key].data]

\* MemoryCache.set
MemSet(c, key, value, ttl, t) ==
    LET ttl1 == IF ttl = NoTime THEN c.default_ttl ELSE ttl
        c1 == IF Cardinality(DOMAIN c.mem) >= c.max_size /\ key \notin DOMAIN c.mem
              THEN EvictLRU(c) ELSE c
    IN [c1 EXCEPT !.mem = Put(c1.mem, key, CacheEntry(value, t, ttl1)),
                  !.acc = AccSet(c1.acc, key, t),
                  !.used = Touch(c1.used, key)]

\* MemoryCache.delete: the cache afterwards and the answer
MemDelete(c, key) ==
    IF key \in DOMAIN c.mem
    THEN [c |-> [c EXCEPT !.mem = Remove(c.mem, key), !.acc = AccDel(c.acc, key),
                          !.used = Forget(c.used, {key})],
          ret |-> TRUE]
    ELSE [c |-> c, ret |-> FALSE]

\* MemoryCache.clear
MemClear(c) == [c EXCEPT !.mem = EmptyMap, !.acc = <<>>, !.used = <<>>]

\* MemoryCache.cleanup_expired that leaves _access_order as it is
MemCleanupLeavesOrder(c, t) ==
    LET expired == {k \in DOMAIN c.mem : IsExpired(c.mem[k], t)}
    IN [c |-> [c EXCEPT !.mem = [k \in (DOMAIN c.mem) \ expired |-> c.mem[k]]],
        n |-> Cardinality(expired)]

\* MemoryCache.cleanup_expired: the cache afterwards and the number removed
MemCleanupExpired(c, t) ==
    LET expired == {k \in DOMAIN c.mem : IsExpired(c.mem[k], t)}
    IN [c |-> [c EXCEPT !.mem = [k \in (DOMAIN c.mem) \ expired |-> c.mem[k]],
                        !.acc = SelectSeq(c.acc, LAMBDA e : e.k \notin expired),
                        !.used = Forget(c.used, expired)],
        n |-> Cardinality(expired)]

\* PersistentCache._save_cache: pickle.dump of the whole dict
SaveCache(c) == [c EXCEPT !.file = c.pers]

\* PersistentCache.get without the is_expired test
PersGetKeepsExpired(c, key, t) ==
    IF key \notin DOMAIN c.pers THEN [c |-> c, val |-> NoValue]
    ELSE [c |-> c, val |-> c.pers[key].data]

\* PersistentCache.get: lazy removal of an expired entry is not saved
PersGet(c, key, t) ==
    IF key \notin DOMAIN c.pers THEN [c |-> c, val |-> NoValue]
    ELSE IF IsExpired(c.pers[key], t)
         THEN [c |-> [c EXCEPT !.pers = Remove(c.pers, key)], val |-> NoValue]
         ELSE [c |-> c, val |-> c.pers[key].data]

\* PersistentCache.set
PersSet(c, key, value, ttl, t) ==
    SaveCache([c EXCEPT !.pers = Put(c.pers, key, CacheEntry(value, t, ttl))])

\* PersistentCache.delete: the cache afterwards and the answer
PersDelete(c, key) ==
    IF key \in DOMAIN c.pers
    THEN [c |-> SaveCache([c EXCEPT !.pers = Remove(c.pers, key)]), ret |-> TRUE]
    ELSE [c |-> c, ret |-> FALSE]

\* PersistentCache.clear
PersClear(c) == SaveCache([c EXCEPT !.pers = EmptyMap])

\* PersistentCache.cleanup_expired
PersCleanupExpired(c, t) ==
    LET expired == {k \in DOMAIN c.pers : IsExpired(c.pers[k], t)}
        c1 == [c EXCEPT !.pers = [k \in (DOMAIN c.pers) \ expired |-> c.pers[k]]]
    IN [c |-> IF expired # {} THEN SaveCache(c1) ELSE c1,
        n |-> Cardinality(expired)]

(***************************************************************************)
(* The cache file as the operating system keeps it.  Its contents are the  *)
(* pickled dict, key -> <<data, timestamp, ttl>>, or something that        *)
(* pickle.load cannot read.                                                *)
(***************************************************************************)
\* pickle.dump that loses the ttl of the entries
PickleWithoutTTL(d) == [k \in DOMAIN d |-> <<d[k].data, d[k].timestamp, NoTime>>]

\* pickle.dump(self._cache, f): the attributes of every CacheEntry
Pickle(d) == [k \in DOMAIN d |-> <<d[k].data, d[k].timestamp, d[k].ttl>>]

\* pickle.load(f) of what pickle.dump wrote
Unpickle(f) == [k \in DOMAIN f |-> CacheEntry(f[k][1], f[k][2], f[k][3])]

\* a file that pickle.load raises on (truncated or overwritten); it is told
\* from a pickled dict by a key that _make_key never returns
Corrupt == [k \in {<<"", "">>} |-> <<>>]

IsCorrupt(file) == <<"", "">> \in DOMAIN file

\* what happens to the write of _save_cache: the dict is written; open()
\* raises and the file stays as it was; open() truncated the file and the
\* write raises before the end
WriteOutcomes == {"written", "refused", "torn"}

\* _save_cache under a write outcome: the file afterwards (the exception of a
\* failed write is caught and logged)
SaveCacheTo(file, d, wr) ==
    CASE wr = "written" -> Pickle(d)
      [] wr = "refused" -> file
      [] wr = "torn" -> Corrupt

\* what the file system answers when PersistentCache.__init__ looks for the
\* file: the file can be read; open() raises (the file is not readable); the
\* stat() of Path.exists() raises PermissionError (the directory cannot be
\* searched)
Accesses == {"ok", "unreadable", "unsearchable"}

\* __init__ and _load_cache: whether the constructor raises, and the _cache
\* of the new instance
LoadCache(file, access) ==
    IF access = "unsearchable" THEN [raised |-> TRUE, cache |-> EmptyMap]
    ELSE IF access = "unreadable" \/ IsCorrupt(file)
         THEN [raised |-> FALSE, cache |-> EmptyMap]
         ELSE [raised |-> FALSE, cache |-> Unpickle(file)]

\* the cache c1 that an operation leaves of c0 when its _save_cache call, if
\* it made one, had the outcome wr
WithWrite(c0, c1, saved, wr) ==
    [c1 EXCEPT !.file = IF saved THEN SaveCacheTo(c0.file, c1.pers, wr) ELSE c0.file]

(***************************************************************************)
(* DictionaryCache                                                         *)
(***************************************************************************)
\* _make_key: md5 of "kind:normalized word"; the hash is taken to be injective
MakeKey(word, kind) == <<kind, Lower(word)>>

\* the query types _make_key is called with
Kinds == {"definition", "pronunciation"}

\* the keys a MemoryCache is called with directly
TierKeys == {MakeKey("a", "definition"), MakeKey("a", "pronunciation"),
             MakeKey("b", "definition")}

\* the keys the two tiers of a DictionaryCache are called with directly
TwoKeys == {MakeKey("a", k) : k \in Kinds}

\* the words a DictionaryCache is called with directly
TieredWords == {"a", "A"}

\* the strings stored in the tiers directly
TierValues == {"x", "y"}

\* the ttl arguments of set: None or a duration
TierTTLs == {NoTime} \cup 0..MaxTTL

\* promotion that hands the persisted entry's ttl on to the memory cache
DcPromoteWithTTL(p, key, t) ==
    IF p.val # NoValue
    THEN [c |-> MemSet(p.c, key, p.val, p.c.pers[key].ttl, t), val |-> p.val]
    ELSE [c |-> p.c, val |-> NoValue]

\* get_definition / get_pronunciation after persistent_cache.get answered p: a
\* value found there is put into the memory cache
DcPromote(p, key, t) ==
    IF p.val # NoValue
    THEN [c |-> MemSet(p.c, key, p.val, NoTime, t), val |-> p.val]
    ELSE [c |-> p.c, val |-> NoValue]

\* get_definition / get_pronunciation after memory_cache.get answered m
DcGetAfterMemory(m, key, t) ==
    IF m.val # NoValue THEN m ELSE DcPromote(PersGet(m.c, key, t), key, t)

\* get_definition / get_pronunciation: memory first, then persistent with promotion
DcGet(c, word, kind, t) ==
    DcGetAfterMemory(MemGet(c, MakeKey(word, kind), t), MakeKey(word, kind), t)

\* set_definition / set_pronunciation that gives both tiers the memory TTL
DcSetOneTTL(c, word, kind, value, t) ==
    LET key == MakeKey(word, kind)
    IN PersSet(MemSet(c, key, value, NoTime, t), key, value, c.default_ttl, t)

\* set_definition / set_pronunciation: both tiers, each with its own TTL
DcSet(c, word, kind, value, t) ==
    LET key == MakeKey(word, kind)
    IN PersSet(MemSet(c, key, value, NoTime, t), key, value, PersistentTTL, t)

\* get_word_info with `or` for `and`: a pair as soon as one half is cached
DcPairEither(d, p) ==
    [c |-> p.c,
     found |-> (d.val # NoValue \/ p.val # NoValue),
     definition |-> d.val,
     pronunciation |-> p.val]

\* get_word_info from the two answers d and p: a pair only when both are cached
DcPair(d, p) ==
    [c |-> p.c,
     found |-> (d.val # NoValue /\ p.val # NoValue),
     definition |-> d.val,
     pronunciation |-> p.val]

\* get_word_info after get_definition answered d
DcGetPronunciationToo(d, word, t) == DcPair(d, DcGet(d.c, word, "pronunciation", t))

\* get_word_info
DcGetWordInfo(c, word, t) ==
    DcGetPronunciationToo(DcGet(c, word, "definition", t), word, t)

\* set_word_info that forgets set_pronunciation
DcSetDefinitionOnly(c, word, definition, pronunciation, t) ==
    DcSet(c, word, "definition", definition, t)

\* set_word_info
DcSetWordInfo(c, word, definition, pronunciation, t) ==
    DcSet(DcSet(c, word, "definition", definition, t),
          word, "pronunciation", pronunciation, t)

\* clear_all
DcClearAll(c) == PersClear(MemClear(c))

\* cleanup_expired
DcCleanupExpired(c, t) ==
    LET m == MemCleanupExpired(c, t)
        p == PersCleanupExpired(m.c, t)
    IN [c |-> p.c,
        memory_cleaned |-> m.n,
        persistent_cleaned |-> p.n,
        total_cleaned |-> m.n + p.n]

\* the latest clock value at which a tier still returns the entry under key
\* (NoTime when the tier has no entry; MaxTime + 1 stands for "never expires")
EntryLiveUntil(tier, key) ==
    IF key \notin DOMAIN tier THEN NoTime
    ELSE IF tier[key].ttl = NoTime THEN MaxTime + 1
         ELSE tier[key].timestamp + tier[key].ttl

(***************************************************************************)
(* Providers (DictionaryServiceInterface): opaque collaborators.  A call   *)
(* returns a string or raises one of the exception classes of service.py.  *)
(***************************************************************************)
Errors == {"HTTPClientError", "APIAuthenticationError"}

\* `except HTTPClientError`: a handler that lets the other classes through
CaughtHTTPOnly(e) == e = "HTTPClientError"

\* `except Exception`: every exception class of service.py derives from Exception
Caught(e) == e \in Errors

\* WordInfo; __post_init__ normalizes the word
WordInfo(word, definition, pronunciation, found_definition, found_pronunciation) ==
    [word |-> Lower(word),
     definition |-> definition,
     pronunciation |-> pronunciation,
     found_definition |-> found_definition,
     found_pronunciation |-> found_pronunciation]

\* WordInfo(word=..., definition=..., pronunciation=...): the found flags default to True
WordInfoDefault(word, definition, pronunciation) ==
    WordInfo(word, definition, pronunciation, TRUE, TRUE)

\* the not-found record batch_lookup fills in
WordInfoNotFound(word) == WordInfo(word, "", "", FALSE, FALSE)

(***************************************************************************)
(* DictionaryServiceManager.  The manager state threaded through its       *)
(* operators is m = [services, order, stats]:                              *)
(*   services  name -> descriptor          (self.services)                 *)
(*   order     names in dict insertion order of self.services              *)
(*   stats     self.stats                                                  *)
(***************************************************************************)
\* the descriptor register_service stores
NewService(priority, enabled, t) ==
    [priority |-> priority,
     status |-> IF enabled THEN ACTIVE ELSE DISABLED,
     failure_count |-> 0,
     last_failure |-> NoTime,
     last_success |-> t,
     total_calls |-> 0,
     successful_calls |-> 0]

\* register_service: an existing name keeps its place in the dict
RegisterInto(m, name, priority, enabled, t) ==
    [m EXCEPT !.services = Put(m.services, name, NewService(priority, enabled, t)),
              !.order = IF name \in DOMAIN m.services THEN m.order
                        ELSE Append(m.order, name),
              !.stats.service_calls = Put(m.stats.service_calls, name, 0),
              !.stats.service_failures = Put(m.stats.service_failures, name, 0)]

\* _get_services_by_priority without the sort: the dict order alone
ServicesInDictOrder(m) == m.order

\* _get_services_by_priority: sorted() is stable, so dict order breaks ties
ServicesByPriority(m) ==
    SelectSeq(m.order, LAMBDA n : m.services[n].priority = PRIMARY)
    \o SelectSeq(m.order, LAMBDA n : m.services[n].priority = SECONDARY)
    \o SelectSeq(m.order, LAMBDA n : m.services[n].priority = FALLBACK)

\* a timestamp that is neither None nor 0 (`if service_info['last_failure']:`)
Truthy(ts) == ts # NoTime /\ ts # 0

\* recovery as soon as the recovery time is reached (>= for >)
RecoversAtWindow(svc, t) ==
    /\ svc.status = FAILED
    /\ Truthy(svc.last_failure)
    /\ t - svc.last_failure >= RecoveryTime

\* whether _is_service_available resets a failed service at clock t
Recovers(svc, t) ==
    /\ svc.status = FAILED
    /\ Truthy(svc.last_failure)
    /\ t - svc.last_failure > RecoveryTime

\* _is_service_available: the table afterwards and the answer
IsServiceAvailable(m, name, t) ==
    IF name \notin DOMAIN m.services THEN [m |-> m, ok |-> FALSE]
    ELSE LET svc == m.services[name]
         IN IF svc.status = DISABLED THEN [m |-> m, ok |-> FALSE]
            ELSE IF svc.status = FAILED
                 THEN IF Recovers(svc, t)
                      THEN [m |-> [m EXCEPT !.services[name].status = ACTIVE,
                                            !.services[name].failure_count = 0],
                            ok |-> TRUE]
                      ELSE [m |-> m, ok |-> FALSE]
                 ELSE [m |-> m, ok |-> TRUE]

\* _record_success that forgets total_calls
RecordSuccessNoTotal(m, name, t) ==
    LET m1 == IF name \in DOMAIN m.services
              THEN [m EXCEPT
                      !.services[name].successful_calls = @ + 1,
                      !.services[name].last_success = t,
                      !.services[name].failure_count = 0,
                      !.services[name].status = IF @ = DEGRADED THEN ACTIVE ELSE @]
              ELSE m
        calls == IF name \in DOMAIN m.stats.service_calls
                 THEN m.stats.service_calls[name] ELSE 0
    IN [m1 EXCEPT !.stats.service_calls = Put(m.stats.service_calls, name, calls + 1)]

\* _record_success that leaves a degraded service degraded
RecordSuccessKeepsDegraded(m, name, t) ==
    LET m1 == IF name \in DOMAIN m.services
              THEN [m EXCEPT
                      !.services[name].successful_calls = @ + 1,
                      !.services[name].total_calls = @ + 1,
                      !.services[name].last_success = t,
                      !.services[name].failure_count = 0]
              ELSE m
        calls == IF name \in DOMAIN m.stats.service_calls
                 THEN m.stats.service_calls[name] ELSE 0
    IN [m1 EXCEPT !.stats.service_calls = Put(m.stats.service_calls, name, calls + 1)]

\* _record_success that leaves failure_count as it is
RecordSuccessKeepsCount(m, name, t) ==
    LET m1 == IF name \in DOMAIN m.services
              THEN [m EXCEPT
                      !.services[name].successful_calls = @ + 1,
                      !.services[name].total_calls = @ + 1,
                      !.services[name].last_success = t,
                      !.services[name].status = IF @ = DEGRADED THEN ACTIVE ELSE @]
              ELSE m
        calls == IF name \in DOMAIN m.stats.service_calls
                 THEN m.stats.service_calls[name] ELSE 0
    IN [m1 EXCEPT !.stats.service_calls = Put(m.stats.service_calls, name, calls + 1)]

\* _record_success
RecordSuccess(m, name, t) ==
    LET m1 == IF name \in DOMAIN m.services
              THEN [m EXCEPT
                      !.services[name].successful_calls = @ + 1,
                      !.services[name].total_calls = @ + 1,
                      !.services[name].last_success = t,
                      !.services[name].failure_count = 0,
                      !.services[name].status = IF @ = DEGRADED THEN ACTIVE ELSE @]
              ELSE m
        calls == IF name \in DOMAIN m.stats.service_calls
                 THEN m.stats.service_calls[name] ELSE 0
    IN [m1 EXCEPT !.stats.service_calls = Put(m.stats.service_calls, name, calls + 1)]

\* _record_failure that counts in self.stats alone and leaves the descriptor
RecordFailureStatsOnly(m, name, t) ==
    LET fails == IF name \in DOMAIN m.stats.service_failures
                 THEN m.stats.service_failures[name] ELSE 0
    IN [m EXCEPT !.stats.service_failures =
                     Put(m.stats.service_failures, name, fails + 1)]

\* _record_failure that degrades a service one failure late (> for >=)
RecordFailureLateDegraded(m, name, t) ==
    LET fc == m.services[name].failure_count + 1
        m1 == IF name \in DOMAIN m.services
              THEN [m EXCEPT
                      !.services[name].failure_count = fc,
                      !.services[name].total_calls = @ + 1,
                      !.services[name].last_failure = t,
                      !.services[name].status =
                          IF fc >= FailureThreshold THEN FAILED
                          ELSE IF fc > FailureThreshold \div 2 THEN DEGRADED
                          ELSE @]
              ELSE m
        fails == IF name \in DOMAIN m.stats.service_failures
                 THEN m.stats.service_failures[name] ELSE 0
    IN [m1 EXCEPT !.stats.service_failures =
                      Put(m.stats.service_failures, name, fails + 1)]

\* _record_failure
RecordFailure(m, name, t) ==
    LET fc == m.services[name].failure_count + 1
        m1 == IF name \in DOMAIN m.services
              THEN [m EXCEPT
                      !.services[name].failure_count = fc,
                      !.services[name].total_calls = @ + 1,
                      !.services[name].last_failure = t,
                      !.services[name].status =
                          IF fc >= FailureThreshold THEN FAILED
                          ELSE IF fc >= FailureThreshold \div 2 THEN DEGRADED
                          ELSE @]
              ELSE m
        fails == IF name \in DOMAIN m.stats.service_failures
                 THEN m.stats.service_failures[name] ELSE 0
    IN [m1 EXCEPT !.stats.service_failures =
                      Put(m.stats.service_failures, name, fails + 1)]

\* disable_service
DisableIn(m, name) ==
    IF name \in DOMAIN m.services
    THEN [m |-> [m EXCEPT !.services[name].status = DISABLED], ret |-> TRUE]
    ELSE [m |-> m, ret |-> FALSE]

\* enable_service that leaves failure_count as it is
EnableKeepsCount(m, name) ==
    IF name \in DOMAIN m.services
    THEN [m |-> [m EXCEPT !.services[name].status = ACTIVE], ret |-> TRUE]
    ELSE [m |-> m, ret |-> FALSE]

\* enable_service
EnableIn(m, name) ==
    IF name \in DOMAIN m.services
    THEN [m |-> [m EXCEPT !.services[name].status = ACTIVE,
                          !.services[name].failure_count = 0],
          ret |-> TRUE]
    ELSE [m |-> m, ret |-> FALSE]

\* what the log of provider calls says of an outcome: the value returned by a
\* single query, "ok" for a batch result, "raised" for an exception
Raised == "raised"

\* one entry of the log of provider calls an operation made; err is the class
\* of the exception of a call that raised
Call(name, out, asked) ==
    [name |-> name, out |-> IF out \in Errors THEN Raised ELSE out, asked |-> asked,
     err |-> IF out \in Errors THEN out ELSE NoValue]

\* the value returned when the loop over the services ends without a result
AllFailedResult == ""

(***************************************************************************)
(* What the providers do during one operation is its script: the outcome   *)
(* of each provider call the operation makes, in the order of the calls.   *)
(* A call is made to each available service in turn until one returns, so  *)
(* every outcome of a script but the last is an exception.                 *)
(***************************************************************************)
\* whether _is_service_available answers True
Available(m, name, t) == IsServiceAvailable(m, name, t).ok

\* the services a loop over _get_services_by_priority() can call at clock t
\* (no service occurs twice, so a call to one does not change another's answer)
Callable(m, t) == SelectSeq(ServicesByPriority(m), LAMBDA n : Available(m, n, t))

\* sequences of n exceptions
ErrorSeqs(n) == [1..n -> Errors]

\* the scripts of an operation that can call n services, each returning one of rets
Scripts(n, rets) ==
    ErrorSeqs(n)
    \cup UNION {{Append(es, r) : es \in ErrorSeqs(j), r \in rets} : j \in 0..(n - 1)}

(***************************************************************************)
(* The loop of get_definition / get_pronunciation over the services        *)
(* (manager.py 145-168 and 192-215).  rest is what is left of              *)
(* _get_services_by_priority(), script what the providers still do.        *)
(***************************************************************************)
RECURSIVE TryServices(_, _, _, _, _, _)

\* one round of the loop: av is what _is_service_available answered for the
\* head of rest, out what that provider does when called
TryHead(rest, av, out, word, t, calls, script) ==
    IF ~av.ok
    THEN TryServices(Tail(rest), av.m, word, t, calls, script)
    ELSE IF out \in Values
         THEN [m |-> RecordSuccess(av.m, Head(rest), t),
               calls |-> Append(calls, Call(Head(rest), out, <<word>>)),
               result |-> out, raised |-> FALSE, by |-> Head(rest)]
         ELSE IF Caught(out)
              THEN TryServices(Tail(rest), RecordFailure(av.m, Head(rest), t),
                               word, t,
                               Append(calls, Call(Head(rest), out, <<word>>)),
                               Tail(script))
              ELSE [m |-> av.m,
                    calls |-> Append(calls, Call(Head(rest), out, <<word>>)),
                    result |-> NoValue, raised |-> TRUE, by |-> NoValue]

TryServices(rest, m, word, t, calls, script) ==
    IF rest = <<>>
    THEN [m |-> m, calls |-> calls, result |-> AllFailedResult,
          raised |-> FALSE, by |-> NoValue]
    ELSE TryHead(rest, IsServiceAvailable(m, Head(rest), t),
                 Head(script),
                 word, t, calls, script)

\* `if self.cache_enabled and self.cache and result`
ShouldCache(enabled, result) == enabled /\ result # ""

\* get_definition / get_pronunciation after a cache miss g and the service loop r
LookupMiss(g, enabled, word, kind, t, r) ==
    [m |-> r.m,
     c |-> IF r.by # NoValue /\ ShouldCache(enabled, r.result)
           THEN DcSet(g.c, word, kind, r.result, t) ELSE g.c,
     result |-> r.result, hit |-> FALSE, calls |-> r.calls,
     raised |-> r.raised, by |-> r.by]

\* get_definition / get_pronunciation after the cache answered g
LookupAfterCache(m, g, enabled, word, kind, t, script) ==
    IF enabled /\ g.val # NoValue
    THEN [m |-> [m EXCEPT !.stats.cache_hits = @ + 1], c |-> g.c,
          result |-> g.val, hit |-> TRUE, calls |-> <<>>, raised |-> FALSE,
          by |-> NoValue]
    ELSE LookupMiss(g, enabled, word, kind, t,
                    TryServices(ServicesByPriority(m), m, word, t, <<>>, script))

\* get_definition / get_pronunciation after the empty-word test, as
\* [m, c, result, hit, calls, raised, by]
Lookup(m, c, enabled, word, kind, t, script) ==
    LookupAfterCache([m EXCEPT !.stats.total_requests = @ + 1],
                     IF enabled THEN DcGet(c, word, kind, t)
                     ELSE [c |-> c, val |-> NoValue],
                     enabled, word, kind, t, script)

\* whether get_definition / get_pronunciation finds the word in the cache
IsHit(c, enabled, word, kind, t) == enabled /\ DcGet(c, word, kind, t).val # NoValue

(***************************************************************************)
(* batch_lookup                                                            *)
(***************************************************************************)
\* the WordInfo a provider of service.py builds for one word of its batch result
ProviderWordInfo(word, definition, pronunciation) ==
    WordInfoDefault(word, definition, pronunciation)

\* a word list without its repetitions, in order of first occurrence
RECURSIVE Dedup(_)
Dedup(ws) ==
    IF ws = <<>> THEN <<>>
    ELSE <<Head(ws)>> \o SelectSeq(Dedup(Tail(ws)), LAMBDA w : w # Head(ws))

\* the batch results a provider can return for the words asked: a dict, in the
\* order of the words asked, that holds a WordInfo for some of them
RECURSIVE Responses(_)
Responses(ds) ==
    IF ds = <<>> THEN {<<>>}
    ELSE LET rs == Responses(Tail(ds))
         IN rs \cup { <<[word |-> Head(ds), info |-> ProviderWordInfo(Head(ds), d, p)]>> \o r
                      : r \in rs, d \in BatchValues, p \in BatchValues }

\* one round of the cache phase: g is what get_word_info answered for word w
BatchCacheStep(a, w, g) ==
    IF g.found
    THEN [a EXCEPT !.c = g.c,
                   !.results = Put(a.results, w,
                                   WordInfoDefault(w, g.definition, g.pronunciation)),
                   !.hits = @ + 1,
                   !.cached = Append(@, w)]
    ELSE [a EXCEPT !.c = g.c, !.uncached = Append(@, w)]

\* the cache phase of batch_lookup (manager.py 233-245) over the words left
RECURSIVE BatchCachePhase(_, _, _)
BatchCachePhase(words, t, a) ==
    IF words = <<>> THEN a
    ELSE BatchCachePhase(Tail(words), t,
                         BatchCacheStep(a, Head(words),
                                        DcGetWordInfo(a.c, Head(words), t)))

\* a batch_lookup without its cache phase: every word goes to the services
BatchNothingCached(c, enabled, words, t) ==
    [c |-> c, results |-> EmptyMap, hits |-> 0, cached |-> <<>>, uncached |-> words]

\* the cache phase from the start: [c, results, hits, cached, uncached]
BatchCached(c, enabled, words, t) ==
    LET start == [c |-> c, results |-> EmptyMap, hits |-> 0,
                  cached |-> <<>>, uncached |-> <<>>]
    IN IF enabled THEN BatchCachePhase(words, t, start)
       ELSE [start EXCEPT !.uncached = words]

\* the loop over batch_result.items() (manager.py 262-272)
RECURSIVE TakeBatchResult(_, _, _, _)
TakeBatchResult(resp, enabled, t, a) ==
    IF resp = <<>> THEN a
    ELSE LET w == Head(resp).word
             info == Head(resp).info
         IN TakeBatchResult(Tail(resp), enabled, t,
              IF info.definition # "" \/ info.pronunciation # ""
              THEN [a EXCEPT !.results = Put(a.results, w, info),
                             !.c = IF enabled
                                   THEN DcSetWordInfo(a.c, w, info.definition,
                                                      info.pronunciation, t)
                                   ELSE a.c]
              ELSE a)

\* the loop of batch_lookup over the services (manager.py 252-280).
\* a = [m, c, results, calls, raised]; an outcome of the script is
\* [err, resp]: the exception raised, or "" and the dict returned
RECURSIVE BatchTry(_, _, _, _, _, _)

\* the state after a batch call that returned, b being the results and the cache
\* after the loop over what it returned
BatchTaken(a, m, log, b) ==
    [a EXCEPT !.m = m, !.c = b.c, !.results = b.results, !.calls = log]

\* one round of the loop: av is what _is_service_available answered for the
\* head of rest, out what that provider does when called
BatchTryHead(rest, av, out, enabled, uncached, t, a, script) ==
    IF ~av.ok
    THEN BatchTry(Tail(rest), enabled, uncached, t, [a EXCEPT !.m = av.m], script)
    ELSE IF out.err = ""
         THEN BatchTaken(a, RecordSuccess(av.m, Head(rest), t),
                         Append(a.calls, Call(Head(rest), "ok", uncached)),
                         TakeBatchResult(out.resp, enabled, t,
                                         [c |-> a.c, results |-> a.results]))
         ELSE IF Caught(out.err)
              THEN BatchTry(Tail(rest), enabled, uncached, t,
                            [a EXCEPT !.m = RecordFailure(av.m, Head(rest), t),
                                      !.calls = Append(a.calls,
                                                       Call(Head(rest), out.err, uncached))],
                            Tail(script))
              ELSE [a EXCEPT !.m = av.m,
                             !.calls = Append(a.calls,
                                              Call(Head(rest), out.err, uncached)),
                             !.raised = TRUE]

BatchTry(rest, enabled, uncached, t, a, script) ==
    IF rest = <<>> THEN a
    ELSE BatchTryHead(rest, IsServiceAvailable(a.m, Head(rest), t),
                      Head(script),
                      enabled, uncached, t, a, script)

\* batch_lookup without its filler
FillNothing(words, results) == results

\* the filler of batch_lookup (manager.py 283-291)
FillMissing(words, results) ==
    [w \in (DOMAIN results) \cup Range(words) |->
        IF w \in DOMAIN results THEN results[w] ELSE WordInfoNotFound(w)]

\* batch_lookup after its cache phase ph: the cache hits are counted
BatchStart(m, ph) ==
    [m |-> [m EXCEPT !.stats.cache_hits = @ + ph.hits], c |-> ph.c,
     results |-> ph.results, calls |-> <<>>, raised |-> FALSE]

\* `if uncached_words:` and the loop over the services
BatchServices(a, enabled, uncached, t, script) ==
    IF uncached # <<>>
    THEN BatchTry(ServicesByPriority(a.m), enabled, uncached, t, a, script)
    ELSE a

\* what batch_lookup leaves and returns, from its cache phase ph and the state r
\* after the service loop
BatchFinish(words, ph, r) ==
    [m |-> r.m, c |-> r.c,
     results |-> IF r.raised THEN r.results ELSE FillMissing(words, r.results),
     calls |-> r.calls, raised |-> r.raised,
     cached |-> ph.cached, uncached |-> ph.uncached]

\* batch_lookup from the end of its cache phase
BatchAfterCache(m, enabled, words, t, script, ph) ==
    BatchFinish(words, ph,
                BatchServices(BatchStart(m, ph), enabled, ph.uncached, t, script))

\* batch_lookup on a non-empty word list, as
\* [m, c, results, calls, raised, cached, uncached]
BatchLookupRun(m, c, enabled, words, t, script) ==
    BatchAfterCache(m, enabled, words, t, script, BatchCached(c, enabled, words, t))

\* what one provider batch call can return for the words asked
BatchReturns(asked) == {[err |-> "", resp |-> r] : r \in Responses(Dedup(asked))}

\* the scripts of a batch_lookup that can call n services for the words asked
BatchScripts(n, asked) ==
    LET errs == {[i \in 1..Len(es) |-> [err |-> es[i], resp |-> <<>>]] : es \in ErrorSeqs(n)}
        errsUpTo(j) == {[i \in 1..j |-> [err |-> es[i], resp |-> <<>>]] : es \in ErrorSeqs(j)}
    IN errs \cup UNION {{Append(es, r) : es \in errsUpTo(j), r \in BatchReturns(asked)}
                        : j \in 0..(n - 1)}

\* the word lists batch_lookup is called with
WordLists == UNION {[1..n -> Words] : n \in 0..MaxBatch}

\* those of them a batch is repeated with: the empty list, one word, a word
\* twice, a word in two spellings, two words
ResumeLists == {ws \in WordLists : ws = <<>> \/ Head(ws) = "a"}

(***************************************************************************)
(* BaseDictionaryService._make_request (dictionary/service.py).  What the   *)
(* server does is a sequence of replies, one per attempt: reply i is what   *)
(* session.request yields at attempt i, a response with a status code and   *)
(* a body, or a requests.exceptions.RequestException.  A run of the method  *)
(* is the record                                                           *)
(*   sent     number of session.request calls                              *)
(*   slept    the arguments of time.sleep, in order                        *)
(*   outcome  "response", the class of the exception raised, or NoValue    *)
(*            when the loop ends without either                            *)
(*   body     the body of the response returned                            *)
(***************************************************************************)
\* the body of a response that is not JSON
Malformed == "malformed"

\* the bodies of a response: the definition or pronunciation in its JSON
\* object, "" for a JSON object without one, or text that is not JSON
Bodies == {"x", "", Malformed}

\* session.request returned a response
Response(status, body) == [exc |-> FALSE, status |-> status, body |-> body]

\* session.request raised a requests.exceptions.RequestException
ConnectionError == [exc |-> TRUE, status |-> 0, body |-> ""]

\* what one attempt can meet
Replies ==
    {Response(200, b) : b \in Bodies}
    \cup {Response(st, "") : st \in {401, 404, 429, 500}}
    \cup {ConnectionError}

\* the status test of _make_request that treats 429 as any other error status
StatusErrorNoRateLimit(status) ==
    IF status = 401 THEN "APIAuthenticationError"
    ELSE IF status >= 400 THEN "HTTPClientError"
    ELSE NoValue

\* the exception the status test of _make_request raises for a response
StatusError(status) ==
    IF status = 401 THEN "APIAuthenticationError"
    ELSE IF status = 429 THEN "RateLimitError"
    ELSE IF status >= 400 THEN "HTTPClientError"
    ELSE NoValue

\* the exception of one attempt, NoValue when it returns the response
AttemptError(reply) ==
    IF reply.exc THEN "RequestException" ELSE StatusError(reply.status)

\* `except (requests.exceptions.RequestException, HTTPClientError)`
Retried(err) == err \in {"RequestException", "HTTPClientError"}

\* a wait that does not grow with the attempt
BackoffFlat(retry_delay, attempt) == retry_delay

\* the argument of time.sleep after the failed attempt `attempt` (from 0)
Backoff(retry_delay, attempt) == retry_delay * (attempt + 1)

\* the run before the first attempt
NewRun == [sent |-> 0, slept |-> <<>>, outcome |-> NoValue, body |-> ""]

RECURSIVE MakeRequestFrom(_, _, _, _, _)

\* one round of `for attempt in range(self.max_retries + 1)`: err is what the
\* attempt raised, run the run with this attempt counted
MakeRequestRound(attempt, max_retries, retry_delay, replies, run, err) ==
    IF err = NoValue
    THEN [run EXCEPT !.outcome = "response", !.body = replies[attempt + 1].body]
    ELSE IF ~Retried(err)
         THEN [run EXCEPT !.outcome = err]
         ELSE IF attempt = max_retries
              THEN [run EXCEPT !.outcome = "HTTPClientError"]
              ELSE MakeRequestFrom(attempt + 1, max_retries, retry_delay, replies,
                                   [run EXCEPT
                                       !.slept = Append(@, Backoff(retry_delay, attempt))])

\* the loop of _make_request from round `attempt` on
MakeRequestFrom(attempt, max_retries, retry_delay, replies, run) ==
    IF attempt >= max_retries + 1
    THEN run
    ELSE MakeRequestRound(attempt, max_retries, retry_delay, replies,
                          [run EXCEPT !.sent = @ + 1],
                          AttemptError(replies[attempt + 1]))

\* _make_request
MakeRequest(max_retries, retry_delay, replies) ==
    MakeRequestFrom(0, max_retries, retry_delay, replies, NewRun)

\* _parse_response: the exception of response.json(), NoValue when it parses
ParseError(body) == IF body = Malformed THEN "DictionaryServiceError" ELSE NoValue

(***************************************************************************)
(* EasyPronunciationService.get_definition / get_pronunciation.  sc is the *)
(* service's _cache (query type and word -> answer), run the run of        *)
(* _make_request the call makes when the word is not in it.                *)
(***************************************************************************)
\* whether the try block gets to its end
EasyParsed(run) == run.outcome = "response" /\ ParseError(run.body) = NoValue

\* the try block with `except Exception: return ""`
EasyTry(run) == IF EasyParsed(run) THEN run.body ELSE ""

\* the call for a non-empty word, as [out, sc, http]: what it returns (or the
\* class of what it raises), the _cache afterwards and the requests it made
EasyGet(sc, key, run) ==
    IF key \in DOMAIN sc
    THEN [out |-> sc[key], sc |-> sc, http |-> <<>>]
    ELSE [out |-> EasyTry(run),
          sc |-> IF EasyParsed(run) THEN Put(sc, key, run.body) ELSE sc,
          http |-> <<run>>]

(***************************************************************************)
(* State                                                                   *)
(***************************************************************************)
VARIABLES
    cache_enabled,     \* DictionaryServiceManager.cache_enabled
    memory_cache,      \* MemoryCache._cache
    access_order,      \* MemoryCache._access_order
    max_size,          \* MemoryCache.max_size
    default_ttl,       \* MemoryCache.default_ttl
    persistent_cache,  \* PersistentCache._cache
    cache_file,        \* contents of the cache file
    services,          \* DictionaryServiceManager.services
    service_order,     \* insertion order of the services dict
    stats,             \* DictionaryServiceManager.stats
    now,               \* time.time()
    last,              \* the latest manager operation and what it did
    prev,              \* the operation before it
    nops,              \* number of operations so far, by class
    budget,            \* number of operations of each class the run may hold
    reg_log,           \* the names register_service was called with, in order
    recency,           \* the keys of _access_order, least recently assigned first
    streak,            \* per service, the failed calls in a row up to now
    service_cache,     \* BaseDictionaryService._cache of each service
    pending,           \* per caller, the lookup it is in the middle of
    lock,              \* the caller that holds MemoryCache._lock
    stored             \* the key and value of every MemoryCache.set so far

vars == <<cache_enabled, memory_cache, access_order, max_size, default_ttl,
          persistent_cache, cache_file, services, service_order, stats, now,
          last, prev, nops, budget, reg_log, recency, streak, service_cache,
          pending, lock, stored>>

\* the cache as the cache operators take it
CacheOf ==
    [mem |-> memory_cache, acc |-> access_order, pers |-> persistent_cache,
     file |-> cache_file, max_size |-> max_size, default_ttl |-> default_ttl,
     used |-> recency]

\* the manager as the manager operators take it
ManagerOf == [services |-> services, order |-> service_order, stats |-> stats]

\* until when each cached key stays retrievable through the two tiers
LiveUntil(c) ==
    [k \in (DOMAIN c.mem) \cup (DOMAIN c.pers) |->
        LET a == EntryLiveUntil(c.mem, k)
            b == EntryLiveUntil(c.pers, k)
        IN IF a >= b THEN a ELSE b]

\* the record kept of an operation
BlankOp ==
    [op |-> "none", name |-> "", word |-> "", words |-> <<>>, result |-> "",
     results |-> EmptyMap, hit |-> FALSE, calls |-> <<>>, raised |-> FALSE,
     by |-> NoValue, ret |-> FALSE, cached |-> <<>>, uncached |-> <<>>,
     at |-> 0, live |-> EmptyMap, key |-> <<"", "">>, ttl |-> NoTime, count |-> 0,
     http |-> <<>>, write |-> NoValue]

\* what is remembered of the operation before the latest one
Summary(o) ==
    [op |-> o.op, word |-> o.word, words |-> o.words, result |-> o.result,
     results |-> o.results, at |-> o.at, live |-> o.live]

\* the state after construction of DictionaryServiceManager(cache_enabled), in a
\* run that may hold b operations of each class
InitWith(b) ==
    /\ cache_enabled \in BOOLEAN
    /\ memory_cache = EmptyMap
    /\ access_order = <<>>
    /\ max_size = MemoryCacheSize
    /\ default_ttl = MemoryTTL
    /\ persistent_cache = EmptyMap
    /\ cache_file = EmptyMap
    /\ services = EmptyMap
    /\ service_order = <<>>
    /\ stats = [total_requests |-> 0, cache_hits |-> 0,
                service_calls |-> EmptyMap, service_failures |-> EmptyMap,
                last_cleanup |-> 1]
    /\ now = 1
    /\ last = BlankOp
    /\ prev = Summary(BlankOp)
    /\ nops = [regs |-> 0, lookups |-> 0, admin |-> 0, ticks |-> 0]
    /\ budget = b
    /\ reg_log = <<>>
    /\ recency = <<>>
    /\ streak = EmptyMap
    /\ service_cache = [n \in Names |-> EmptyMap]
    /\ pending = EmptyMap
    /\ lock = NoValue
    /\ stored = {}

Init ==
    InitWith([regs |-> MaxRegs, lookups |-> MaxLookups, admin |-> MaxAdmin,
              ticks |-> MaxTicks, total |-> MaxTotal])

InitCached ==
    InitWith([regs |-> CachedRegs, lookups |-> CachedLookups, admin |-> CachedAdmin,
              ticks |-> CachedTicks, total |-> CachedTotal])

InitBatch ==
    InitWith([regs |-> BatchRegs, lookups |-> BatchLookups, admin |-> 0,
              ticks |-> 0, total |-> BatchTotal])

InitResume ==
    InitWith([regs |-> ResumeRegs, lookups |-> ResumeLookups, admin |-> ResumeAdmin,
              ticks |-> ResumeTicks, total |-> ResumeTotal])

InitRegister ==
    InitWith([regs |-> OrderRegs, lookups |-> OrderLookups, admin |-> 0,
              ticks |-> 0, total |-> OrderTotal])

\* the failed calls in a row to each service after operation o left manager m:
\*   sofar  since the service last returned, was registered or was enabled
\*   fresh  the same, counted anew from a call made to a service that was failed
\*   auth   whether a call to the service raised APIAuthenticationError since it
\*          was registered or enabled
StreakAfter(m, o) ==
    [n \in DOMAIN m.services |->
        IF o.op \in {"register_service", "enable_service"} /\ o.name = n
        THEN [sofar |-> 0, fresh |-> 0, auth |-> FALSE]
        ELSE IF \E i \in 1..Len(o.calls) : o.calls[i].name = n
             THEN IF \E i \in 1..Len(o.calls) :
                         o.calls[i].name = n /\ o.calls[i].out # Raised
                  THEN [streak[n] EXCEPT !.sofar = 0, !.fresh = 0]
                  ELSE [sofar |-> streak[n].sofar + 1,
                        fresh |-> IF services[n].status = FAILED THEN 1
                                  ELSE streak[n].fresh + 1,
                        auth |-> \/ streak[n].auth
                                 \/ \E i \in 1..Len(o.calls) :
                                        /\ o.calls[i].name = n
                                        /\ o.calls[i].err = "APIAuthenticationError"]
             ELSE streak[n]]

\* the state but for service_cache, pending and lock after an operation of class
\* cls that left manager m and cache c
Record(cls, m, c, o) ==
    /\ nops[cls] < budget[cls]
    /\ nops.regs + nops.lookups + nops.admin < budget.total
    /\ nops' = [nops EXCEPT ![cls] = @ + 1]
    /\ services' = m.services
    /\ service_order' = m.order
    /\ stats' = m.stats
    /\ memory_cache' = c.mem
    /\ access_order' = c.acc
    /\ persistent_cache' = c.pers
    /\ cache_file' = c.file
    /\ last' = [o EXCEPT !.at = now, !.live = LiveUntil(c)]
    /\ prev' = Summary(last)
    /\ recency' = c.used
    /\ streak' = StreakAfter(m, o)
    /\ UNCHANGED <<cache_enabled, max_size, default_ttl, now, budget>>

\* the state after an operation made by a single caller from start to end
Commit(cls, m, c, o) ==
    /\ Record(cls, m, c, o)
    /\ UNCHANGED <<service_cache, pending, lock, stored>>

(***************************************************************************)
(* Operations                                                              *)
(***************************************************************************)
\* register_service(name, service, priority, enabled)
RegisterService(name, priority, enabled) ==
    /\ Commit("regs", RegisterInto(ManagerOf, name, priority, enabled, now), CacheOf,
              [BlankOp EXCEPT !.op = "register_service", !.name = name])
    /\ reg_log' = Append(reg_log, name)

\* the state after a single-word lookup that ran as r
LookupCommit(op, word, r) ==
    Commit("lookups", r.m, r.c,
           [BlankOp EXCEPT !.op = op, !.word = word, !.result = r.result,
                           !.hit = r.hit, !.calls = r.calls, !.raised = r.raised,
                           !.by = r.by])

\* get_definition(word) / get_pronunciation(word)
GetOne(op, kind, word, rets) ==
    /\ UNCHANGED reg_log
    /\ IF word = ""
       THEN Commit("lookups", ManagerOf, CacheOf,
                   [BlankOp EXCEPT !.op = op, !.word = word, !.result = ""])
       ELSE \E script \in IF IsHit(CacheOf, cache_enabled, word, kind, now) THEN {<<>>}
                          ELSE Scripts(Len(Callable(ManagerOf, now)), rets) :
                LookupCommit(op, word,
                             Lookup(ManagerOf, CacheOf, cache_enabled, word, kind, now,
                                    script))

GetDefinition(word, rets) == GetOne("get_definition", "definition", word, rets)

GetPronunciation(word, rets) == GetOne("get_pronunciation", "pronunciation", word, rets)

\* the state after a batch_lookup that ran as r
BatchCommit(words, r) ==
    Commit("lookups", r.m, r.c,
           [BlankOp EXCEPT !.op = "batch_lookup", !.words = words,
                           !.results = r.results, !.calls = r.calls,
                           !.raised = r.raised, !.cached = r.cached,
                           !.uncached = r.uncached])

\* what the providers can do during a batch_lookup that asks them for asked
BatchScriptsFor(asked) ==
    IF asked = <<>> THEN {<<>>}
    ELSE BatchScripts(Len(Callable(ManagerOf, now)), asked)

\* batch_lookup(words)
BatchLookup(words) ==
    /\ UNCHANGED reg_log
    /\ IF words = <<>>
       THEN Commit("lookups", ManagerOf, CacheOf,
                   [BlankOp EXCEPT !.op = "batch_lookup", !.words = words])
       ELSE \E script \in
                BatchScriptsFor(BatchCached(CacheOf, cache_enabled, words, now).uncached) :
                   BatchCommit(words,
                               BatchLookupRun(ManagerOf, CacheOf, cache_enabled,
                                              words, now, script))

\* disable_service(name)
DisableService(name) ==
    /\ UNCHANGED reg_log
    /\ LET r == DisableIn(ManagerOf, name)
       IN Commit("admin", r.m, CacheOf,
                 [BlankOp EXCEPT !.op = "disable_service", !.name = name,
                                 !.ret = r.ret])

\* enable_service(name)
EnableService(name) ==
    /\ UNCHANGED reg_log
    /\ LET r == EnableIn(ManagerOf, name)
       IN Commit("admin", r.m, CacheOf,
                 [BlankOp EXCEPT !.op = "enable_service", !.name = name,
                                 !.ret = r.ret])

\* cleanup_cache()
CleanupCache ==
    /\ UNCHANGED reg_log
    /\ IF cache_enabled
       THEN LET r == DcCleanupExpired(CacheOf, now)
            IN Commit("admin", [ManagerOf EXCEPT !.stats.last_cleanup = now], r.c,
                      [BlankOp EXCEPT !.op = "cleanup_cache"])
       ELSE Commit("admin", ManagerOf, CacheOf, [BlankOp EXCEPT !.op = "cleanup_cache"])

\* cache.clear_all() on the manager's cache
ClearAll ==
    /\ cache_enabled
    /\ UNCHANGED reg_log
    /\ Commit("admin", ManagerOf, DcClearAll(CacheOf), [BlankOp EXCEPT !.op = "clear_all"])

\* the clock advances between operations
Tick ==
    /\ now < MaxTime
    /\ nops.ticks < budget.ticks
    /\ now' \in (now + 1)..MaxTime
    /\ nops' = [nops EXCEPT !.ticks = @ + 1]
    /\ UNCHANGED <<cache_enabled, memory_cache, access_order, max_size, default_ttl,
                   persistent_cache, cache_file, services, service_order, stats,
                   last, prev, budget, reg_log, recency, streak, service_cache,
                   pending, lock, stored>>

\* routing of single-word lookups through the services
Next ==
    \/ \E name \in Names, priority \in Priorities, enabled \in BOOLEAN :
           RegisterService(name, priority, enabled)
    \/ \E word \in RoutingWords : GetDefinition(word, RoutingValues)
    \/ \E word \in RoutingWords : GetPronunciation(word, RoutingValues)
    \/ \E name \in Names : DisableService(name)
    \/ \E name \in Names : EnableService(name)
    \/ Tick

Spec == Init /\ [][Next]_vars

\* single-word lookups through the cache
NextCached ==
    \/ \E name \in Names, priority \in Priorities, enabled \in BOOLEAN :
           RegisterService(name, priority, enabled)
    \/ \E word \in Words \cup {""} : GetDefinition(word, Values)
    \/ \E word \in Words \cup {""} : GetPronunciation(word, Values)
    \/ CleanupCache
    \/ ClearAll
    \/ Tick

SpecCached == InitCached /\ [][NextCached]_vars

\* one batch_lookup through the registered services
NextBatch ==
    \/ \E name \in Names, priority \in Priorities, enabled \in BOOLEAN :
           RegisterService(name, priority, enabled)
    \/ \E words \in WordLists : BatchLookup(words)

SpecBatch == InitBatch /\ [][NextBatch]_vars

\* batch lookups that follow a lookup, through one service and the cache
NextResume ==
    \/ \E name \in Names, enabled \in BOOLEAN : RegisterService(name, PRIMARY, enabled)
    \/ GetDefinition("a", BatchValues)
    \/ \E words \in ResumeLists : BatchLookup(words)
    \/ ClearAll
    \/ Tick

SpecResume == InitResume /\ [][NextResume]_vars

\* registrations, and a lookup that tries what is registered
NextRegister ==
    \/ \E name \in Names, priority \in Priorities, enabled \in BOOLEAN :
           RegisterService(name, priority, enabled)
    \/ \E word \in RoutingWords : GetDefinition(word, RoutingValues)

SpecRegister == InitRegister /\ [][NextRegister]_vars

\* the word lists batch_lookup is called with next to single-word lookups
HealthLists == {<<>>, <<"a">>}

\* lookups of both kinds and manual overrides, without a cache
InitHealth ==
    /\ InitWith([regs |-> HealthRegs, lookups |-> HealthLookups, admin |-> HealthAdmin,
                 ticks |-> HealthTicks, total |-> HealthTotal])
    /\ cache_enabled = FALSE

NextHealth ==
    \/ \E name \in Names, priority \in Priorities, enabled \in BOOLEAN :
           RegisterService(name, priority, enabled)
    \/ \E word \in RoutingWords : GetDefinition(word, RoutingValues)
    \/ \E words \in HealthLists : BatchLookup(words)
    \/ \E name \in Names : DisableService(name)
    \/ \E name \in Names : EnableService(name)
    \/ Tick

SpecHealth == InitHealth /\ [][NextHealth]_vars

(***************************************************************************)
(* The cache classes used on their own                                     *)
(***************************************************************************)
\* the state after construction of MemoryCache(max_size, default_ttl) and of
\* DictionaryCache(memory_cache_size, memory_ttl) over an empty cache directory,
\* in a run that may hold b operations of each class
InitCacheWith(b, sizes, ttls) ==
    /\ cache_enabled = TRUE
    /\ memory_cache = EmptyMap
    /\ access_order = <<>>
    /\ max_size \in sizes
    /\ default_ttl \in ttls
    /\ persistent_cache = EmptyMap
    /\ cache_file = EmptyMap
    /\ services = EmptyMap
    /\ service_order = <<>>
    /\ stats = [total_requests |-> 0, cache_hits |-> 0,
                service_calls |-> EmptyMap, service_failures |-> EmptyMap,
                last_cleanup |-> 1]
    /\ now = 1
    /\ last = BlankOp
    /\ prev = Summary(BlankOp)
    /\ nops = [regs |-> 0, lookups |-> 0, admin |-> 0, ticks |-> 0]
    /\ budget = b
    /\ reg_log = <<>>
    /\ recency = <<>>
    /\ streak = EmptyMap
    /\ service_cache = [n \in Names |-> EmptyMap]
    /\ pending = EmptyMap
    /\ lock = NoValue
    /\ stored = {}

InitMemory ==
    InitCacheWith([regs |-> 0, lookups |-> 0, admin |-> MemOps, ticks |-> MemTicks,
                   total |-> MemOps],
                  0..MemMaxSize, {MemoryTTL, NoTime})

InitTiers ==
    InitCacheWith([regs |-> 0, lookups |-> 0, admin |-> TiersOps,
                   ticks |-> TiersTicks, total |-> TiersOps],
                  {MemoryCacheSize}, {MemoryTTL})

InitTiered ==
    InitCacheWith([regs |-> 0, lookups |-> 0, admin |-> TieredOps,
                   ticks |-> TieredTicks, total |-> TieredOps],
                  1..TieredMaxSize, {MemoryTTL, NoTime})

\* memory_cache.get(key)
MemoryGet(key) ==
    /\ UNCHANGED reg_log
    /\ LET r == MemGet(CacheOf, key, now)
       IN Commit("admin", ManagerOf, r.c,
                 [BlankOp EXCEPT !.op = "memory.get", !.key = key, !.result = r.val])

\* memory_cache.set(key, value, ttl)
MemorySet(key, value, ttl) ==
    /\ UNCHANGED reg_log
    /\ Commit("admin", ManagerOf, MemSet(CacheOf, key, value, ttl, now),
              [BlankOp EXCEPT !.op = "memory.set", !.key = key, !.result = value,
                              !.ttl = ttl])

\* memory_cache.delete(key)
MemoryDelete(key) ==
    /\ UNCHANGED reg_log
    /\ LET r == MemDelete(CacheOf, key)
       IN Commit("admin", ManagerOf, r.c,
                 [BlankOp EXCEPT !.op = "memory.delete", !.key = key, !.ret = r.ret])

\* memory_cache.clear()
MemoryClear ==
    /\ UNCHANGED reg_log
    /\ Commit("admin", ManagerOf, MemClear(CacheOf),
              [BlankOp EXCEPT !.op = "memory.clear"])

\* memory_cache.cleanup_expired()
MemoryCleanupExpired ==
    /\ UNCHANGED reg_log
    /\ LET r == MemCleanupExpired(CacheOf, now)
       IN Commit("admin", ManagerOf, r.c,
                 [BlankOp EXCEPT !.op = "memory.cleanup_expired", !.count = r.n])

\* persistent_cache.get(key)
PersistentGet(key) ==
    /\ UNCHANGED reg_log
    /\ LET r == PersGet(CacheOf, key, now)
       IN Commit("admin", ManagerOf, r.c,
                 [BlankOp EXCEPT !.op = "persistent.get", !.key = key,
                                 !.result = r.val])

\* persistent_cache.set(key, value, ttl)
PersistentSet(key, value, ttl) ==
    /\ UNCHANGED reg_log
    /\ Commit("admin", ManagerOf, PersSet(CacheOf, key, value, ttl, now),
              [BlankOp EXCEPT !.op = "persistent.set", !.key = key,
                              !.result = value, !.ttl = ttl])

\* persistent_cache.delete(key)
PersistentDelete(key) ==
    /\ UNCHANGED reg_log
    /\ LET r == PersDelete(CacheOf, key)
       IN Commit("admin", ManagerOf, r.c,
                 [BlankOp EXCEPT !.op = "persistent.delete", !.key = key,
                                 !.ret = r.ret])

\* cache.get_definition(word) / cache.get_pronunciation(word)
CacheGet(word, kind) ==
    /\ UNCHANGED reg_log
    /\ LET r == DcGet(CacheOf, word, kind, now)
       IN Commit("admin", ManagerOf, r.c,
                 [BlankOp EXCEPT !.op = "cache.get", !.word = word,
                                 !.key = MakeKey(word, kind), !.result = r.val])

\* cache.set_definition(word, value) / cache.set_pronunciation(word, value)
CacheSet(word, kind, value) ==
    /\ UNCHANGED reg_log
    /\ Commit("admin", ManagerOf, DcSet(CacheOf, word, kind, value, now),
              [BlankOp EXCEPT !.op = "cache.set", !.word = word,
                              !.key = MakeKey(word, kind), !.result = value])

\* cache.get_word_info(word)
CacheGetWordInfo(word) ==
    /\ UNCHANGED reg_log
    /\ LET r == DcGetWordInfo(CacheOf, word, now)
       IN Commit("admin", ManagerOf, r.c,
                 [BlankOp EXCEPT !.op = "cache.get_word_info", !.word = word,
                                 !.hit = r.found,
                                 !.results = <<r.definition, r.pronunciation>>])

\* cache.set_word_info(word, definition, pronunciation)
CacheSetWordInfo(word, definition, pronunciation) ==
    /\ UNCHANGED reg_log
    /\ Commit("admin", ManagerOf,
              DcSetWordInfo(CacheOf, word, definition, pronunciation, now),
              [BlankOp EXCEPT !.op = "cache.set_word_info", !.word = word,
                              !.results = <<definition, pronunciation>>])

\* cache.cleanup_expired()
CacheCleanupExpired ==
    /\ UNCHANGED reg_log
    /\ LET r == DcCleanupExpired(CacheOf, now)
       IN Commit("admin", ManagerOf, r.c,
                 [BlankOp EXCEPT !.op = "cache.cleanup_expired",
                                 !.results =
                                     [memory_cleaned |-> r.memory_cleaned,
                                      persistent_cleaned |-> r.persistent_cleaned,
                                      total_cleaned |-> r.total_cleaned]])

\* a MemoryCache of any small size
NextMemory ==
    \/ \E key \in TierKeys : MemoryGet(key)
    \/ \E key \in TierKeys, value \in TierValues, ttl \in {NoTime, MaxTTL} :
           MemorySet(key, value, ttl)
    \/ \E key \in TierKeys : MemoryDelete(key)
    \/ MemoryClear
    \/ MemoryCleanupExpired
    \/ Tick

SpecMemory == InitMemory /\ [][NextMemory]_vars

\* the two tiers of a DictionaryCache, each called directly
NextTiers ==
    \/ \E key \in TwoKeys : MemoryGet(key)
    \/ \E key \in TwoKeys, value \in TierValues, ttl \in TierTTLs :
           MemorySet(key, value, ttl)
    \/ \E key \in TwoKeys : PersistentGet(key)
    \/ \E key \in TwoKeys, value \in TierValues, ttl \in TierTTLs :
           PersistentSet(key, value, ttl)
    \/ \E key \in TwoKeys : PersistentDelete(key)
    \/ \E kind \in Kinds : CacheSet("a", kind, "x")
    \/ CacheCleanupExpired
    \/ Tick

SpecTiers == InitTiers /\ [][NextTiers]_vars

\* a DictionaryCache of a small memory_cache_size
NextTiered ==
    \/ \E word \in TieredWords, kind \in Kinds : CacheGet(word, kind)
    \/ \E word \in TieredWords, kind \in Kinds, value \in TierValues :
           CacheSet(word, kind, value)
    \/ \E word \in TieredWords : CacheGetWordInfo(word)
    \/ \E word \in TieredWords, d \in BatchValues, p \in BatchValues :
           CacheSetWordInfo(word, d, p)
    \/ CacheCleanupExpired
    \/ ClearAll
    \/ Tick

SpecTiered == InitTiered /\ [][NextTiered]_vars

(***************************************************************************)
(* A PersistentCache and its file                                          *)
(***************************************************************************)
InitStore ==
    InitCacheWith([regs |-> 0, lookups |-> 0, admin |-> StoreOps,
                   ticks |-> StoreTicks, total |-> StoreOps],
                  {MemoryCacheSize}, {MemoryTTL})

InitRestart ==
    InitCacheWith([regs |-> 0, lookups |-> 0, admin |-> RestartOps,
                   ticks |-> RestartTicks, total |-> RestartOps],
                  {MemoryCacheSize}, {MemoryTTL})

\* PersistentCache(cache_dir) over the file as it is: the new instance takes
\* the place of the old one, unless the constructor raises
StoreOpen(access) ==
    /\ UNCHANGED reg_log
    /\ LET r == LoadCache(cache_file, access)
       IN Commit("admin", ManagerOf,
                 [CacheOf EXCEPT !.pers = IF r.raised THEN @ ELSE r.cache],
                 [BlankOp EXCEPT !.op = "PersistentCache", !.raised = r.raised,
                                 !.name = access])

\* persistent_cache.get(key)
StoreGet(key) ==
    /\ UNCHANGED reg_log
    /\ LET r == PersGet(CacheOf, key, now)
       IN Commit("admin", ManagerOf, WithWrite(CacheOf, r.c, FALSE, NoValue),
                 [BlankOp EXCEPT !.op = "persistent.get", !.key = key,
                                 !.result = r.val])

\* persistent_cache.set(key, value, ttl)
StoreSet(key, value, ttl, wr) ==
    /\ UNCHANGED reg_log
    /\ Commit("admin", ManagerOf,
              WithWrite(CacheOf, PersSet(CacheOf, key, value, ttl, now), TRUE, wr),
              [BlankOp EXCEPT !.op = "persistent.set", !.key = key,
                              !.result = value, !.ttl = ttl, !.write = wr])

\* persistent_cache.delete(key)
StoreDelete(key, wr) ==
    /\ UNCHANGED reg_log
    /\ LET r == PersDelete(CacheOf, key)
       IN Commit("admin", ManagerOf, WithWrite(CacheOf, r.c, r.ret, wr),
                 [BlankOp EXCEPT !.op = "persistent.delete", !.key = key,
                                 !.ret = r.ret,
                                 !.write = IF r.ret THEN wr ELSE NoValue])

\* persistent_cache.clear()
StoreClear(wr) ==
    /\ UNCHANGED reg_log
    /\ Commit("admin", ManagerOf, WithWrite(CacheOf, PersClear(CacheOf), TRUE, wr),
              [BlankOp EXCEPT !.op = "persistent.clear", !.write = wr])

\* persistent_cache.cleanup_expired()
StoreCleanupExpired(wr) ==
    /\ UNCHANGED reg_log
    /\ LET r == PersCleanupExpired(CacheOf, now)
       IN Commit("admin", ManagerOf, WithWrite(CacheOf, r.c, r.n > 0, wr),
                 [BlankOp EXCEPT !.op = "persistent.cleanup_expired",
                                 !.count = r.n,
                                 !.write = IF r.n > 0 THEN wr ELSE NoValue])

\* a PersistentCache whose file can fail
NextStore ==
    \/ \E access \in Accesses : StoreOpen(access)
    \/ \E key \in TwoKeys : StoreGet(key)
    \/ \E key \in TwoKeys, ttl \in TierTTLs, wr \in WriteOutcomes :
           StoreSet(key, "x", ttl, wr)
    \/ \E key \in TwoKeys, wr \in WriteOutcomes : StoreDelete(key, wr)
    \/ \E wr \in WriteOutcomes : StoreClear(wr)
    \/ \E wr \in WriteOutcomes : StoreCleanupExpired(wr)
    \/ Tick

SpecStore == InitStore /\ [][NextStore]_vars

\* a PersistentCache whose file can always be read and written
NextRestart ==
    \/ StoreOpen("ok")
    \/ \E key \in TwoKeys : StoreGet(key)
    \/ \E key \in TwoKeys, value \in TierValues, ttl \in TierTTLs :
           StoreSet(key, value, ttl, "written")
    \/ \E key \in TwoKeys : StoreDelete(key, "written")
    \/ StoreClear("written")
    \/ StoreCleanupExpired("written")
    \/ Tick

SpecRestart == InitRestart /\ [][NextRestart]_vars

(***************************************************************************)
(* The providers of service.py                                             *)
(***************************************************************************)
InitRequest ==
    InitWith([regs |-> 0, lookups |-> 0, admin |-> MaxRequests, ticks |-> 0,
              total |-> MaxRequests])

\* what is kept of a run of _make_request
HttpRun(max_retries, retry_delay, replies, run) ==
    [max_retries |-> max_retries, retry_delay |-> retry_delay, replies |-> replies,
     sent |-> run.sent, slept |-> run.slept, outcome |-> run.outcome,
     body |-> run.body]

\* _make_request of a service with these max_retries and retry_delay, against a
\* server that replies as `replies`
MakeRequestCall(max_retries, retry_delay, replies) ==
    /\ UNCHANGED reg_log
    /\ Commit("admin", ManagerOf, CacheOf,
              [BlankOp EXCEPT
                  !.op = "_make_request",
                  !.http = <<HttpRun(max_retries, retry_delay, replies,
                                     MakeRequest(max_retries, retry_delay, replies))>>])

\* requests of services of every max_retries and retry_delay, against every
\* server
NextRequest ==
    \E max_retries \in 0..MaxRetries, retry_delay \in 1..MaxDelay :
        \E replies \in [1..(max_retries + 1) -> Replies] :
            MakeRequestCall(max_retries, retry_delay, replies)

SpecRequest == InitRequest /\ [][NextRequest]_vars

(***************************************************************************)
(* A manager whose services are EasyPronunciationService instances         *)
(***************************************************************************)
InitEasy ==
    InitWith([regs |-> EasyRegs, lookups |-> EasyLookups, admin |-> 0,
              ticks |-> EasyTicks, total |-> EasyTotal])

\* what the servers can reply to an attempt of a lookup
EasyReplies ==
    {Response(200, "x"), Response(200, Malformed), Response(401, ""),
     Response(429, ""), Response(500, ""), ConnectionError}

\* the state after a lookup whose first callable service, name, ran as e, and
\* which ran as r
EasyCommit(op, word, name, e, r) ==
    /\ service_cache' = [service_cache EXCEPT ![name] = e.sc]
    /\ Record("lookups", r.m, r.c,
              [BlankOp EXCEPT !.op = op, !.word = word, !.result = r.result,
                              !.hit = r.hit, !.calls = r.calls, !.raised = r.raised,
                              !.by = r.by, !.http = e.http])

\* the lookup when its first callable service is name
EasyCall(op, kind, word, name, e) ==
    EasyCommit(op, word, name, e,
               Lookup(ManagerOf, CacheOf, cache_enabled, word, kind, now, <<e.out>>))

\* get_definition(word) / get_pronunciation(word) of a manager whose services
\* are EasyPronunciationService instances; replies is what the server of the
\* service that is called does
EasyLookup(op, kind, word, replies) ==
    /\ UNCHANGED <<reg_log, pending, lock, stored>>
    /\ IF \/ word = ""
          \/ IsHit(CacheOf, cache_enabled, word, kind, now)
          \/ Callable(ManagerOf, now) = <<>>
       THEN /\ UNCHANGED service_cache
            /\ IF word = ""
               THEN Record("lookups", ManagerOf, CacheOf,
                           [BlankOp EXCEPT !.op = op, !.word = word, !.result = ""])
               ELSE LookupCommit(op, word,
                                 Lookup(ManagerOf, CacheOf, cache_enabled, word, kind,
                                        now, <<>>))
       ELSE EasyCall(op, kind, word, Head(Callable(ManagerOf, now)),
                     EasyGet(service_cache[Head(Callable(ManagerOf, now))],
                             <<kind, Lower(word)>>,
                             HttpRun(EasyRetries, EasyDelay, replies,
                                     MakeRequest(EasyRetries, EasyDelay, replies))))

NextEasy ==
    \/ \E name \in Names, priority \in Priorities, enabled \in BOOLEAN :
           RegisterService(name, priority, enabled)
    \/ \E word \in RoutingWords, replies \in [1..(EasyRetries + 1) -> EasyReplies] :
           EasyLookup("get_definition", "definition", word, replies)
    \/ \E word \in RoutingWords, replies \in [1..(EasyRetries + 1) -> EasyReplies] :
           EasyLookup("get_pronunciation", "pronunciation", word, replies)
    \/ Tick

SpecEasy == InitEasy /\ [][NextEasy]_vars

(***************************************************************************)
(* A manager used by concurrent callers (it has no lock).  A caller's       *)
(* get_definition runs from its start to the provider call it makes, and   *)
(* from the end of that call to the next provider call or to its return;   *)
(* the steps of other callers come in between, while the call is going on. *)
(* pending[c] is the lookup of caller c at a provider call:                *)
(*   word   the word looked up                                             *)
(*   at     the service being called                                       *)
(*   rest   what is left of _get_services_by_priority() after it           *)
(***************************************************************************)
Callers == {"t1", "t2"}

InitShared ==
    /\ InitWith([regs |-> SharedRegs, lookups |-> SharedLookups,
                 admin |-> SharedAdmin, ticks |-> SharedTicks,
                 total |-> SharedTotal])
    /\ cache_enabled = FALSE

\* the loop over the services up to the next provider call: the manager
\* afterwards, the service to call (NoValue when the loop ends) and what is
\* left of the list
RECURSIVE Advance(_, _, _)

AdvanceHead(rest, av, t) ==
    IF av.ok THEN [m |-> av.m, at |-> Head(rest), rest |-> Tail(rest)]
    ELSE Advance(Tail(rest), av.m, t)

Advance(rest, m, t) ==
    IF rest = <<>> THEN [m |-> m, at |-> NoValue, rest |-> <<>>]
    ELSE AdvanceHead(rest, IsServiceAvailable(m, Head(rest), t), t)

\* the state after a step of caller c that left the manager and the loop as a
\* and is remembered as o
SharedStep(c, word, a, o) ==
    /\ services' = a.m.services
    /\ service_order' = a.m.order
    /\ stats' = a.m.stats
    /\ pending' = IF a.at = NoValue THEN Remove(pending, c)
                  ELSE Put(pending, c, [word |-> word, at |-> a.at, rest |-> a.rest])
    /\ last' = [o EXCEPT !.word = word, !.at = now]
    /\ prev' = Summary(last)
    /\ streak' = StreakAfter(a.m, o)
    /\ UNCHANGED <<cache_enabled, memory_cache, access_order, max_size, default_ttl,
                   persistent_cache, cache_file, now, budget, reg_log, recency,
                   service_cache, lock, stored>>

\* caller c enters get_definition(word) and runs up to its first provider call
BeginLookup(c, word) ==
    /\ c \notin DOMAIN pending
    /\ ~cache_enabled
    /\ nops.lookups < budget.lookups
    /\ nops.regs + nops.lookups + nops.admin < budget.total
    /\ nops' = [nops EXCEPT !.lookups = @ + 1]
    /\ IF word = ""
       THEN SharedStep(c, word, [m |-> ManagerOf, at |-> NoValue, rest |-> <<>>],
                       [BlankOp EXCEPT !.op = "get_definition"])
       ELSE SharedStep(c, word,
                       Advance(ServicesByPriority(ManagerOf),
                               [ManagerOf EXCEPT !.stats.total_requests = @ + 1], now),
                       [BlankOp EXCEPT !.op = "get_definition"])

\* the provider call of caller c ends with out, and c runs on to its next
\* provider call or to its return
EndCall(c, out) ==
    /\ c \in DOMAIN pending
    /\ UNCHANGED nops
    /\ IF out \in Values
       THEN SharedStep(c, pending[c].word,
                       [m |-> RecordSuccess(ManagerOf, pending[c].at, now),
                        at |-> NoValue, rest |-> <<>>],
                       [BlankOp EXCEPT
                           !.op = "_record_success", !.name = pending[c].at,
                           !.result = out, !.by = pending[c].at,
                           !.calls = <<Call(pending[c].at, out, <<pending[c].word>>)>>])
       ELSE SharedStep(c, pending[c].word,
                       Advance(pending[c].rest,
                               RecordFailure(ManagerOf, pending[c].at, now), now),
                       [BlankOp EXCEPT
                           !.op = "_record_failure", !.name = pending[c].at,
                           !.calls = <<Call(pending[c].at, out, <<pending[c].word>>)>>])

NextShared ==
    \/ \E name \in Names, priority \in Priorities, enabled \in BOOLEAN :
           RegisterService(name, priority, enabled)
    \/ \E c \in Callers, word \in RoutingWords : BeginLookup(c, word)
    \/ \E c \in Callers, out \in RoutingValues \cup Errors : EndCall(c, out)
    \/ \E name \in Names : DisableService(name)
    \/ \E name \in Names : EnableService(name)
    \/ Tick

SpecShared == InitShared /\ [][NextShared]_vars

(***************************************************************************)
(* _record_success and _record_failure run by concurrent callers.  The     *)
(* manager has no lock, and `d[k] += 1` is a load of d[k] followed by a    *)
(* store into d[k]: the steps of other callers come between the two.       *)
(* pending[c] is the lookup of caller c:                                   *)
(*   pc    "call" during the provider call, "idle" outside a lookup,       *)
(*         otherwise the next step of the recording function               *)
(*   at    the service called, rest what is left of the list of services   *)
(*   tmp   the number loaded by the latest load                            *)
(*   log   the outcomes caller c has recorded so far, in order             *)
(***************************************************************************)
\* the descriptor and the counters that a step of a recording function leaves
StepTo(m, p, pc, tmp) == [m |-> m, p |-> [p EXCEPT !.pc = pc, !.tmp = tmp]]

\* service_calls.get(name, 0) / service_failures.get(name, 0)
GetOrZero(d, name) == IF name \in DOMAIN d THEN d[name] ELSE 0

\* one step of _record_success(name) on manager m at clock t
RecordSuccessStep(m, p, t) ==
    LET n == p.at
    IN CASE p.pc = "s_load_successful" ->
                StepTo(m, p, "s_store_successful", m.services[n].successful_calls)
         [] p.pc = "s_store_successful" ->
                StepTo([m EXCEPT !.services[n].successful_calls = p.tmp + 1], p,
                       "s_load_total", 0)
         [] p.pc = "s_load_total" ->
                StepTo(m, p, "s_store_total", m.services[n].total_calls)
         [] p.pc = "s_store_total" ->
                StepTo([m EXCEPT !.services[n].total_calls = p.tmp + 1], p,
                       "s_last_success", 0)
         [] p.pc = "s_last_success" ->
                StepTo([m EXCEPT !.services[n].last_success = t], p, "s_reset", 0)
         [] p.pc = "s_reset" ->
                StepTo([m EXCEPT !.services[n].failure_count = 0], p, "s_status", 0)
         [] p.pc = "s_status" ->
                StepTo(m, p, IF m.services[n].status = DEGRADED THEN "s_active"
                             ELSE "s_load_calls", 0)
         [] p.pc = "s_active" ->
                StepTo([m EXCEPT !.services[n].status = ACTIVE], p, "s_load_calls", 0)
         [] p.pc = "s_load_calls" ->
                StepTo(m, p, "s_store_calls", GetOrZero(m.stats.service_calls, n))
         [] p.pc = "s_store_calls" ->
                StepTo([m EXCEPT !.stats.service_calls =
                                     Put(m.stats.service_calls, n, p.tmp + 1)],
                       p, "s_return", 0)

\* one step of _record_failure(name, error) on manager m at clock t
RecordFailureStep(m, p, t) ==
    LET n == p.at
    IN CASE p.pc = "f_load_count" ->
                StepTo(m, p, "f_store_count", m.services[n].failure_count)
         [] p.pc = "f_store_count" ->
                StepTo([m EXCEPT !.services[n].failure_count = p.tmp + 1], p,
                       "f_load_total", 0)
         [] p.pc = "f_load_total" ->
                StepTo(m, p, "f_store_total", m.services[n].total_calls)
         [] p.pc = "f_store_total" ->
                StepTo([m EXCEPT !.services[n].total_calls = p.tmp + 1], p,
                       "f_last_failure", 0)
         [] p.pc = "f_last_failure" ->
                StepTo([m EXCEPT !.services[n].last_failure = t], p, "f_if", 0)
         [] p.pc = "f_if" ->
                StepTo(m, p, IF m.services[n].failure_count >= FailureThreshold
                             THEN "f_failed" ELSE "f_elif", 0)
         [] p.pc = "f_failed" ->
                StepTo([m EXCEPT !.services[n].status = FAILED], p, "f_load_failures", 0)
         [] p.pc = "f_elif" ->
                StepTo(m, p,
                       IF m.services[n].failure_count >= FailureThreshold \div 2
                       THEN "f_degraded" ELSE "f_load_failures", 0)
         [] p.pc = "f_degraded" ->
                StepTo([m EXCEPT !.services[n].status = DEGRADED], p,
                       "f_load_failures", 0)
         [] p.pc = "f_load_failures" ->
                StepTo(m, p, "f_store_failures", GetOrZero(m.stats.service_failures, n))
         [] p.pc = "f_store_failures" ->
                StepTo([m EXCEPT !.stats.service_failures =
                                     Put(m.stats.service_failures, n, p.tmp + 1)],
                       p, "f_return", 0)

\* the places inside the two recording functions
SuccessSteps ==
    {"s_load_successful", "s_store_successful", "s_load_total", "s_store_total",
     "s_last_success", "s_reset", "s_status", "s_active", "s_load_calls",
     "s_store_calls"}

FailureSteps ==
    {"f_load_count", "f_store_count", "f_load_total", "f_store_total",
     "f_last_failure", "f_if", "f_failed", "f_elif", "f_degraded",
     "f_load_failures", "f_store_failures"}

\* what a recorded call is remembered as
Succeeded == "success"
Failed == "failure"

InitRecording ==
    /\ InitWith([regs |-> RecordingRegs, lookups |-> RecordingLookups, admin |-> 0,
                 ticks |-> 0, total |-> RecordingRegs + RecordingLookups])
    /\ cache_enabled = FALSE

\* the state after a step of caller c that left manager m and the lookup as p
RecordingCommit(c, m, p) ==
    /\ services' = m.services
    /\ stats' = m.stats
    /\ pending' = Put(pending, c, p)
    /\ UNCHANGED <<cache_enabled, memory_cache, access_order, max_size, default_ttl,
                   persistent_cache, cache_file, service_order, now, last, prev,
                   budget, reg_log, recency, streak, service_cache, lock, stored>>

\* the lookup p after the loop over the services ran on as a
LoopOn(p, a) ==
    [p EXCEPT !.pc = IF a.at = NoValue THEN "idle" ELSE "call",
              !.at = a.at, !.rest = a.rest, !.tmp = 0]

\* caller c enters get_definition("a") and runs up to its first provider call
EnterLookup(c) ==
    /\ c \in DOMAIN pending => pending[c].pc = "idle"
    /\ nops.lookups < budget.lookups
    /\ nops' = [nops EXCEPT !.lookups = @ + 1]
    /\ LET a == Advance(ServicesByPriority(ManagerOf),
                        [ManagerOf EXCEPT !.stats.total_requests = @ + 1], now)
           p == IF c \in DOMAIN pending THEN pending[c]
                ELSE [pc |-> "idle", at |-> NoValue, rest |-> <<>>, tmp |-> 0,
                      log |-> <<>>]
       IN RecordingCommit(c, a.m, LoopOn(p, a))

\* the provider call of caller c returns (manager.py 152, 155) or raises (163-164)
ProviderEnds(c, returned) ==
    /\ c \in DOMAIN pending
    /\ pending[c].pc = "call"
    /\ UNCHANGED nops
    /\ RecordingCommit(c, ManagerOf,
                       [pending[c] EXCEPT !.pc = IF returned THEN "s_load_successful"
                                                 ELSE "f_load_count"])

\* caller c makes one step inside _record_success or _record_failure
RecordingStep(c) ==
    /\ c \in DOMAIN pending
    /\ pending[c].pc \in SuccessSteps \cup FailureSteps
    /\ UNCHANGED nops
    /\ LET r == IF pending[c].pc \in SuccessSteps
                THEN RecordSuccessStep(ManagerOf, pending[c], now)
                ELSE RecordFailureStep(ManagerOf, pending[c], now)
       IN RecordingCommit(c, r.m, r.p)

\* _record_success returns and get_definition returns the result (161)
SuccessReturns(c) ==
    /\ c \in DOMAIN pending
    /\ pending[c].pc = "s_return"
    /\ UNCHANGED nops
    /\ RecordingCommit(c, ManagerOf,
                       [pending[c] EXCEPT
                           !.pc = "idle",
                           !.log = Append(@, [name |-> pending[c].at,
                                              outcome |-> Succeeded])])

\* _record_failure returns and the loop goes on to the next service (165)
FailureReturns(c) ==
    /\ c \in DOMAIN pending
    /\ pending[c].pc = "f_return"
    /\ UNCHANGED nops
    /\ LET a == Advance(pending[c].rest, ManagerOf, now)
       IN RecordingCommit(c, a.m,
                          LoopOn([pending[c] EXCEPT
                                     !.log = Append(@, [name |-> pending[c].at,
                                                        outcome |-> Failed])], a))

\* a service is registered before the lookups start
RegisterFirst(name, priority, enabled) ==
    /\ pending = EmptyMap
    /\ RegisterService(name, priority, enabled)

NextRecording ==
    \/ \E name \in Names, priority \in Priorities, enabled \in BOOLEAN :
           RegisterFirst(name, priority, enabled)
    \/ \E c \in Callers : EnterLookup(c)
    \/ \E c \in Callers, returned \in BOOLEAN : ProviderEnds(c, returned)
    \/ \E c \in Callers : RecordingStep(c)
    \/ \E c \in Callers : SuccessReturns(c)
    \/ \E c \in Callers : FailureReturns(c)

SpecRecording == InitRecording /\ [][NextRecording]_vars

(***************************************************************************)
(* A MemoryCache used by concurrent callers.  pending[c] is the call of     *)
(* caller c: the method (op) and its arguments, where the caller is in it  *)
(* (pc), its local `entry`, what it is going to return, and the cache as   *)
(* it was when the caller got the lock (snap).  pc is "enter" before       *)
(* `with self._lock`, "exit" at the end of the with block, and a place in  *)
(* the block in between.                                                   *)
(***************************************************************************)
InitThreads ==
    InitCacheWith([regs |-> 0, lookups |-> 0, admin |-> ThreadOps,
                   ticks |-> ThreadTicks, total |-> ThreadOps],
                  1..ThreadMaxSize, {MemoryTTL, NoTime})

\* the methods of MemoryCache
Methods == {"get", "set", "delete", "clear", "cleanup_expired", "stats"}

\* a lock that lets every caller in
LockOpen(holder) == TRUE

\* whether `with self._lock` lets a caller in
LockFree(holder) == holder = NoValue

\* MemoryCache.stats: total_entries and expired_entries
MemStats(c, t) ==
    [total_entries |-> Cardinality(DOMAIN c.mem),
     expired_entries |-> Cardinality({k \in DOMAIN c.mem : IsExpired(c.mem[k], t)})]

\* the with block of MemoryCache.set, in two steps: the capacity test with
\* _evict_lru, then the two assignments
SetBody(p, c, t) ==
    IF p.pc = "body"
    THEN [c |-> IF Cardinality(DOMAIN c.mem) >= c.max_size /\ p.key \notin DOMAIN c.mem
                THEN EvictLRU(c) ELSE c,
          p |-> [p EXCEPT !.pc = "insert",
                          !.ttl = IF p.ttl = NoTime THEN c.default_ttl ELSE p.ttl]]
    ELSE [c |-> [c EXCEPT !.mem = Put(c.mem, p.key, CacheEntry(p.value, t, p.ttl)),
                          !.acc = AccSet(c.acc, p.key, t),
                          !.used = Touch(c.used, p.key)],
          p |-> [p EXCEPT !.pc = "exit"]]

\* the with block of MemoryCache.get, in two steps: up to the expiry test, then
\* the assignment to _access_order and the return of entry.data
GetBody(p, c, t) ==
    IF p.pc = "body"
    THEN IF p.key \notin DOMAIN c.mem
         THEN [c |-> c, p |-> [p EXCEPT !.pc = "exit", !.result = NoValue]]
         ELSE IF IsExpired(c.mem[p.key], t)
              THEN [c |-> [c EXCEPT !.mem = Remove(c.mem, p.key),
                                    !.acc = AccDel(c.acc, p.key),
                                    !.used = Forget(c.used, {p.key})],
                    p |-> [p EXCEPT !.pc = "exit", !.result = NoValue]]
              ELSE [c |-> c, p |-> [p EXCEPT !.pc = "touch", !.entry = c.mem[p.key]]]
    ELSE [c |-> [c EXCEPT !.acc = AccSet(c.acc, p.key, t),
                          !.used = Touch(c.used, p.key)],
          p |-> [p EXCEPT !.pc = "exit", !.result = p.entry.data]]

\* the with block of MemoryCache.clear, one step for each clear()
ClearBody(p, c) ==
    IF p.pc = "body"
    THEN [c |-> [c EXCEPT !.mem = EmptyMap], p |-> [p EXCEPT !.pc = "order"]]
    ELSE [c |-> [c EXCEPT !.acc = <<>>, !.used = <<>>], p |-> [p EXCEPT !.pc = "exit"]]

\* one step of the with block of the call p on cache c: the cache and the call
\* afterwards
BodyStep(p, c, t) ==
    CASE p.op = "set" -> SetBody(p, c, t)
      [] p.op = "get" -> GetBody(p, c, t)
      [] p.op = "clear" -> ClearBody(p, c)
      [] p.op = "delete" ->
            [c |-> MemDelete(c, p.key).c,
             p |-> [p EXCEPT !.pc = "exit", !.ret = MemDelete(c, p.key).ret]]
      [] p.op = "cleanup_expired" ->
            [c |-> MemCleanupExpired(c, t).c,
             p |-> [p EXCEPT !.pc = "exit", !.count = MemCleanupExpired(c, t).n]]
      [] p.op = "stats" ->
            [c |-> c,
             p |-> [p EXCEPT !.pc = "exit",
                             !.count = MemStats(c, t).total_entries,
                             !.expired = MemStats(c, t).expired_entries]]

\* what a step of a caller leaves alone
ThreadFrame ==
    UNCHANGED <<cache_enabled, max_size, default_ttl, persistent_cache, cache_file,
                services, service_order, stats, now, budget, reg_log, streak,
                service_cache>>

\* caller c calls a method of the cache
Invoke(c, op, key, value, ttl) ==
    /\ c \notin DOMAIN pending
    /\ nops.admin < budget.admin
    /\ nops' = [nops EXCEPT !.admin = @ + 1]
    /\ pending' = Put(pending, c,
                      [op |-> op, key |-> key, value |-> value, ttl |-> ttl,
                       given |-> ttl, pc |-> "enter",
                       entry |-> CacheEntry("", 0, NoTime), result |-> NoValue,
                       ret |-> FALSE, count |-> 0, expired |-> 0, snap |-> CacheOf])
    /\ UNCHANGED <<memory_cache, access_order, recency, lock, stored, last, prev>>
    /\ ThreadFrame

\* `with self._lock:` caller c gets the lock
Acquire(c) ==
    /\ c \in DOMAIN pending
    /\ pending[c].pc = "enter"
    /\ LockFree(lock)
    /\ lock' = c
    /\ pending' = [pending EXCEPT ![c].pc = "body", ![c].snap = CacheOf]
    /\ UNCHANGED <<memory_cache, access_order, recency, stored, nops, last, prev>>
    /\ ThreadFrame

\* the state after caller c made the step r of its with block
BodyCommit(c, r) ==
    /\ memory_cache' = r.c.mem
    /\ access_order' = r.c.acc
    /\ recency' = r.c.used
    /\ pending' = [pending EXCEPT ![c] = r.p]
    /\ stored' = IF pending[c].op = "set" /\ pending[c].pc = "insert"
                 THEN stored \cup {<<pending[c].key, pending[c].value>>}
                 ELSE stored
    /\ UNCHANGED <<lock, nops, last, prev>>
    /\ ThreadFrame

\* caller c makes a step of its with block
Body(c) ==
    /\ c \in DOMAIN pending
    /\ pending[c].pc \notin {"enter", "exit"}
    /\ BodyCommit(c, BodyStep(pending[c], CacheOf, now))

\* caller c leaves the with block, which releases the lock, and returns
Release(c) ==
    /\ c \in DOMAIN pending
    /\ pending[c].pc = "exit"
    /\ lock' = NoValue
    /\ pending' = Remove(pending, c)
    /\ last' = [BlankOp EXCEPT !.op = pending[c].op, !.name = c,
                               !.key = pending[c].key, !.result = pending[c].result,
                               !.ret = pending[c].ret, !.count = pending[c].count,
                               !.at = now]
    /\ prev' = Summary(last)
    /\ UNCHANGED <<memory_cache, access_order, recency, stored, nops>>
    /\ ThreadFrame

\* the clock changes while no caller is in a with block
IdleTick == lock = NoValue /\ Tick

NextThreads ==
    \/ \E c \in Callers, op \in Methods \ {"set"}, key \in TwoKeys :
           Invoke(c, op, key, "", NoTime)
    \/ \E c \in Callers, key \in TwoKeys, value \in TierValues :
           Invoke(c, "set", key, value, NoTime)
    \/ \E c \in Callers : Acquire(c)
    \/ \E c \in Callers : Body(c)
    \/ \E c \in Callers : Release(c)
    \/ IdleTick

SpecThreads == InitThreads /\ [][NextThreads]_vars

(***************************************************************************)
(* A PersistentCache used by concurrent callers.  The class has no lock:   *)
(* the statements of a method are steps between which the steps of other   *)
(* callers come.  pending[c] is the call of caller c:                      *)
(*   op, key, ttl   the method and its arguments                           *)
(*   pc             the next statement, "done" when the call has ended     *)
(*   entry          the local `entry` of get                               *)
(*   size           the size of the dict when cleanup_expired began to     *)
(*                  iterate over it                                        *)
(*   expired        the local expired_keys not yet deleted                 *)
(*   raised         the exception that ended the call, if any              *)
(*   result, ret, count   what the call returns                            *)
(***************************************************************************)
InitPersist ==
    InitCacheWith([regs |-> 0, lookups |-> 0, admin |-> PersistOps,
                   ticks |-> PersistTicks, total |-> PersistOps],
                  {MemoryCacheSize}, {MemoryTTL})

PersistMethods == {"get", "set", "delete", "clear", "cleanup_expired"}

\* the first statement of each method
FirstStatement(op) ==
    CASE op = "get" -> "g_in"
      [] op = "set" -> "s_put"
      [] op = "delete" -> "d_in"
      [] op = "clear" -> "c_clear"
      [] op = "cleanup_expired" -> "e_iter"

\* the call p goes on to pc with dict d and file f
GoesOn(p, d, f, pc) == [p |-> [p EXCEPT !.pc = pc], d |-> d, f |-> f]

\* the call p ends by an exception
Raises(p, d, f, exc) == [p |-> [p EXCEPT !.pc = "done", !.raised = exc], d |-> d, f |-> f]

\* one statement of PersistentCache.get
PersistGetStep(p, d, f, t) ==
    CASE p.pc = "g_in" ->
            IF p.key \notin DOMAIN d THEN GoesOn(p, d, f, "done")
            ELSE GoesOn(p, d, f, "g_entry")
      [] p.pc = "g_entry" ->
            IF p.key \notin DOMAIN d THEN Raises(p, d, f, "KeyError")
            ELSE GoesOn([p EXCEPT !.entry = d[p.key]], d, f, "g_expired")
      [] p.pc = "g_expired" ->
            IF IsExpired(p.entry, t) THEN GoesOn(p, d, f, "g_del")
            ELSE GoesOn([p EXCEPT !.result = p.entry.data], d, f, "done")
      [] p.pc = "g_del" ->
            IF p.key \notin DOMAIN d THEN Raises(p, d, f, "KeyError")
            ELSE GoesOn(p, Remove(d, p.key), f, "done")

\* one statement of PersistentCache.cleanup_expired; k is the key that the
\* loop over expired_keys deletes next
PersistCleanupStep(p, d, f, t, k) ==
    CASE p.pc = "e_iter" ->
            GoesOn([p EXCEPT !.size = Cardinality(DOMAIN d)], d, f, "e_collect")
      [] p.pc = "e_collect" ->
            IF Cardinality(DOMAIN d) # p.size THEN Raises(p, d, f, "RuntimeError")
            ELSE LET expired == {x \in DOMAIN d : IsExpired(d[x], t)}
                 IN GoesOn([p EXCEPT !.expired = expired,
                                     !.count = Cardinality(expired)],
                           d, f, IF expired = {} THEN "done" ELSE "e_del")
      [] p.pc = "e_del" ->
            IF k \notin DOMAIN d THEN Raises(p, d, f, "KeyError")
            ELSE GoesOn([p EXCEPT !.expired = @ \ {k}], Remove(d, k), f,
                        IF p.expired = {k} THEN "save" ELSE "e_del")

\* one statement of a method of PersistentCache
PersistStep(p, d, f, t, k) ==
    CASE p.op = "get" -> PersistGetStep(p, d, f, t)
      [] p.op = "cleanup_expired" /\ p.pc # "save" -> PersistCleanupStep(p, d, f, t, k)
      [] p.pc = "s_put" ->
            GoesOn(p, Put(d, p.key, CacheEntry("x", t, p.ttl)), f, "save")
      [] p.pc = "d_in" ->
            IF p.key \in DOMAIN d THEN GoesOn(p, d, f, "d_del")
            ELSE GoesOn(p, d, f, "done")
      [] p.pc = "d_del" ->
            IF p.key \notin DOMAIN d THEN Raises(p, d, f, "KeyError")
            ELSE GoesOn([p EXCEPT !.ret = TRUE], Remove(d, p.key), f, "save")
      [] p.pc = "c_clear" -> GoesOn(p, EmptyMap, f, "save")
      [] p.pc = "save" -> GoesOn(p, d, SaveCacheTo(f, d, "written"), "done")

PersistFrame ==
    UNCHANGED <<cache_enabled, memory_cache, access_order, max_size, default_ttl,
                services, service_order, stats, now, last, prev, budget, reg_log,
                recency, streak, service_cache, lock, stored>>

\* caller c calls a method of the PersistentCache
PersistInvoke(c, op, key, ttl) ==
    /\ c \in DOMAIN pending => pending[c].pc = "done"
    /\ nops.admin < budget.admin
    /\ nops' = [nops EXCEPT !.admin = @ + 1]
    /\ pending' = Put(pending, c,
                      [op |-> op, key |-> key, ttl |-> ttl, pc |-> FirstStatement(op),
                       entry |-> CacheEntry("", 0, NoTime), size |-> 0,
                       expired |-> {}, raised |-> NoValue, result |-> NoValue,
                       ret |-> FALSE, count |-> 0])
    /\ UNCHANGED <<persistent_cache, cache_file>>
    /\ PersistFrame

\* caller c executes its next statement
PersistStatement(c) ==
    /\ c \in DOMAIN pending
    /\ pending[c].pc # "done"
    /\ \E k \in IF pending[c].pc = "e_del" THEN pending[c].expired
                 ELSE {pending[c].key} :
           LET r == PersistStep(pending[c], persistent_cache, cache_file, now, k)
           IN /\ pending' = Put(pending, c, r.p)
              /\ persistent_cache' = r.d
              /\ cache_file' = r.f
    /\ UNCHANGED nops
    /\ PersistFrame

NextPersist ==
    \/ \E c \in Callers, op \in PersistMethods, key \in TwoKeys, ttl \in {0, NoTime} :
           PersistInvoke(c, op, key, ttl)
    \/ \E c \in Callers : PersistStatement(c)
    \/ Tick

SpecPersist == InitPersist /\ [][NextPersist]_vars

(***************************************************************************)
(* A DictionaryCache used by concurrent callers.  get_definition,          *)
(* set_definition, get_pronunciation and set_pronunciation hold no lock    *)
(* over the two tiers: each call they make to a tier is a step, and the    *)
(* steps of other callers come in between.  pending[c] is the call of      *)
(* caller c: the method (op), its word, query type and value, the tier     *)
(* call it makes next (pc, "done" when it has returned) and its result.    *)
(***************************************************************************)
InitCoherent ==
    InitCacheWith([regs |-> 0, lookups |-> 0, admin |-> CoherentOps,
                   ticks |-> CoherentTicks, total |-> CoherentOps],
                  {MemoryCacheSize}, {MemoryTTL})

\* the call p goes on to pc with the cache c
TierCallDone(p, c, pc) == [p |-> [p EXCEPT !.pc = pc], c |-> c]

\* the next tier call of get_definition / get_pronunciation
DcGetStep(p, c, t) ==
    LET key == MakeKey(p.word, p.kind)
    IN CASE p.pc = "memory_get" ->
                LET r == MemGet(c, key, t)
                IN IF r.val # NoValue
                   THEN TierCallDone([p EXCEPT !.result = r.val], r.c, "done")
                   ELSE TierCallDone(p, r.c, "persistent_get")
         [] p.pc = "persistent_get" ->
                LET r == PersGet(c, key, t)
                IN IF r.val # NoValue
                   THEN TierCallDone([p EXCEPT !.result = r.val], r.c, "promote")
                   ELSE TierCallDone(p, r.c, "done")
         [] p.pc = "promote" ->
                TierCallDone(p, MemSet(c, key, p.result, NoTime, t), "done")

\* the next tier call of set_definition / set_pronunciation
DcSetStep(p, c, t) ==
    LET key == MakeKey(p.word, p.kind)
    IN CASE p.pc = "memory_set" ->
                TierCallDone(p, MemSet(c, key, p.value, NoTime, t), "persistent_set")
         [] p.pc = "persistent_set" ->
                TierCallDone(p, PersSet(c, key, p.value, PersistentTTL, t), "done")

CoherentFrame ==
    UNCHANGED <<cache_enabled, max_size, default_ttl, services, service_order, stats,
                now, last, prev, budget, reg_log, streak, service_cache, lock, stored>>

\* caller c calls cache.get_<kind>(word) or cache.set_<kind>(word, value)
DcInvoke(c, op, word, kind, value) ==
    /\ c \in DOMAIN pending => pending[c].pc = "done"
    /\ nops.admin < budget.admin
    /\ nops' = [nops EXCEPT !.admin = @ + 1]
    /\ pending' = Put(pending, c,
                      [op |-> op, word |-> word, kind |-> kind,
                       value |-> IF op = "set" THEN value ELSE NoValue,
                       pc |-> IF op = "set" THEN "memory_set" ELSE "memory_get",
                       result |-> NoValue])
    /\ UNCHANGED <<memory_cache, access_order, recency, persistent_cache, cache_file>>
    /\ CoherentFrame

\* caller c makes its next call to a tier
DcTierCall(c) ==
    /\ c \in DOMAIN pending
    /\ pending[c].pc # "done"
    /\ LET r == IF pending[c].op = "set" THEN DcSetStep(pending[c], CacheOf, now)
                ELSE DcGetStep(pending[c], CacheOf, now)
       IN /\ pending' = Put(pending, c, r.p)
          /\ memory_cache' = r.c.mem
          /\ access_order' = r.c.acc
          /\ recency' = r.c.used
          /\ persistent_cache' = r.c.pers
          /\ cache_file' = r.c.file
    /\ UNCHANGED nops
    /\ CoherentFrame

NextCoherent ==
    \/ \E c \in Callers, kind \in Kinds : DcInvoke(c, "get", "a", kind, NoValue)
    \/ \E c \in Callers, kind \in Kinds, value \in TierValues :
           DcInvoke(c, "set", "a", kind, value)
    \/ \E c \in Callers : DcTierCall(c)
    \/ Tick

SpecCoherent == InitCoherent /\ [][NextCoherent]_vars

(***************************************************************************)
(* A manager with its cache used by concurrent callers.  A lookup is a     *)
(* sequence of calls to the tiers and to the providers; a call to the      *)
(* memory tier is two steps, the entry into its `with self._lock` block    *)
(* and the block itself, which ends by releasing the lock.  pending[c] is  *)
(* the lookup of caller c:                                                 *)
(*   op, word   get_definition, get_pronunciation or batch_lookup([word])  *)
(*   phase      "cache" while the cache is asked, "store" while the result *)
(*              is put into it                                             *)
(*   kinds      the query types still to ask or to store in this phase     *)
(*   step       the call the lookup makes next: memory_get, persistent_get,*)
(*              promote, memory_set, persistent_set to the tiers, "call"   *)
(*              while a provider call is going on, "done" at the end       *)
(*   inblock    whether the caller is inside a with block                  *)
(*   found      what the cache answered, vals what there is to store       *)
(*   at, rest   the service being called and the services after it         *)
(***************************************************************************)
InitLocked ==
    /\ InitWith([regs |-> LockedRegs, lookups |-> LockedLookups, admin |-> 0,
                 ticks |-> LockedTicks, total |-> LockedRegs + LockedLookups])
    /\ cache_enabled = TRUE

\* the end of a with block that keeps the lock
AfterWithHeld(holder) == holder

\* the end of `with self._lock`: the lock is released
AfterWith(holder) == NoValue

\* the query types a lookup asks the cache for
KindsOf(op) ==
    CASE op = "get_definition" -> <<"definition">>
      [] op = "get_pronunciation" -> <<"pronunciation">>
      [] op = "batch_lookup" -> <<"definition", "pronunciation">>

\* the calls to the memory tier
MemorySteps == {"memory_get", "promote", "memory_set"}

\* the lookup p turns to the services in rest
ToProviders(p, rest, m, t) ==
    LET a == Advance(rest, m, t)
    IN [p |-> [p EXCEPT !.step = IF a.at = NoValue THEN "done" ELSE "call",
                        !.kinds = <<>>, !.at = a.at, !.rest = a.rest],
        m |-> a.m]

\* the lookup p after it is through with the query type at the head of kinds
AfterKind(p, m, t) ==
    IF Tail(p.kinds) # <<>>
    THEN [p |-> [p EXCEPT !.kinds = Tail(p.kinds),
                          !.step = IF p.phase = "cache" THEN "memory_get"
                                   ELSE "memory_set"],
          m |-> m]
    ELSE IF p.phase = "cache"
         THEN IF \A k \in Range(KindsOf(p.op)) : p.found[k] # NoValue
              THEN [p |-> [p EXCEPT !.step = "done", !.kinds = <<>>],
                    m |-> [m EXCEPT !.stats.cache_hits = @ + 1]]
              ELSE ToProviders(p, ServicesByPriority(m), m, t)
         ELSE [p |-> [p EXCEPT !.step = "done", !.kinds = <<>>],
               m |-> IF p.op = "batch_lookup" THEN RecordSuccess(m, p.at, t) ELSE m]

\* the with block of the call to the memory tier that p makes
MemoryBlock(p, m, c, t) ==
    LET key == MakeKey(p.word, Head(p.kinds))
    IN CASE p.step = "memory_get" ->
                LET r == MemGet(c, key, t)
                IN IF r.val # NoValue
                   THEN [n |-> AfterKind([p EXCEPT !.found[Head(p.kinds)] = r.val], m, t),
                         c |-> r.c]
                   ELSE [n |-> [p |-> [p EXCEPT !.step = "persistent_get"], m |-> m],
                         c |-> r.c]
         [] p.step = "promote" ->
                [n |-> AfterKind(p, m, t),
                 c |-> MemSet(c, key, p.found[Head(p.kinds)], NoTime, t)]
         [] p.step = "memory_set" ->
                [n |-> [p |-> [p EXCEPT !.step = "persistent_set"], m |-> m],
                 c |-> MemSet(c, key, p.vals[Head(p.kinds)], NoTime, t)]

\* the call to the persistent tier that p makes
PersistentCall(p, m, c, t) ==
    LET key == MakeKey(p.word, Head(p.kinds))
    IN CASE p.step = "persistent_get" ->
                LET r == PersGet(c, key, t)
                IN IF r.val # NoValue
                   THEN [n |-> [p |-> [p EXCEPT !.found[Head(p.kinds)] = r.val,
                                                !.step = "promote"],
                                m |-> m],
                         c |-> r.c]
                   ELSE [n |-> AfterKind(p, m, t), c |-> r.c]
         [] p.step = "persistent_set" ->
                [n |-> AfterKind(p, m, t),
                 c |-> PersSet(c, key, p.vals[Head(p.kinds)], PersistentTTL, t)]

\* the lookup p after its provider call returned vals or raised
AfterProvider(p, m, t, raised, vals) ==
    IF raised THEN ToProviders(p, p.rest, RecordFailure(m, p.at, t), t)
    ELSE IF \E k \in DOMAIN vals : vals[k] # ""
         THEN [p |-> [p EXCEPT !.phase = "store", !.step = "memory_set",
                               !.kinds = KindsOf(p.op), !.vals = vals],
               m |-> IF p.op = "batch_lookup" THEN m ELSE RecordSuccess(m, p.at, t)]
         ELSE [p |-> [p EXCEPT !.step = "done"], m |-> RecordSuccess(m, p.at, t)]

\* the state after a step of caller c
LockedCommit(c, n, ca, holder) ==
    /\ pending' = Put(pending, c, n.p)
    /\ services' = n.m.services
    /\ service_order' = n.m.order
    /\ stats' = n.m.stats
    /\ memory_cache' = ca.mem
    /\ access_order' = ca.acc
    /\ recency' = ca.used
    /\ persistent_cache' = ca.pers
    /\ cache_file' = ca.file
    /\ lock' = holder
    /\ UNCHANGED <<cache_enabled, max_size, default_ttl, now, last, prev, budget,
                   reg_log, streak, service_cache, stored>>

\* caller c enters get_definition(word), get_pronunciation(word) or
\* batch_lookup([word])
LockedEnter(c, op, word) ==
    /\ c \in DOMAIN pending => pending[c].step = "done"
    /\ nops.lookups < budget.lookups
    /\ nops' = [nops EXCEPT !.lookups = @ + 1]
    /\ LockedCommit(c,
                    [p |-> [op |-> op, word |-> word, phase |-> "cache",
                            kinds |-> KindsOf(op), step |-> "memory_get",
                            inblock |-> FALSE, found |-> [k \in Kinds |-> NoValue],
                            vals |-> [k \in Kinds |-> ""], at |-> NoValue,
                            rest |-> <<>>],
                     m |-> IF op = "batch_lookup" THEN ManagerOf
                           ELSE [ManagerOf EXCEPT !.stats.total_requests = @ + 1]],
                    CacheOf, lock)

\* caller c enters the with block of a MemoryCache method
LockedAcquire(c) ==
    /\ c \in DOMAIN pending
    /\ pending[c].step \in MemorySteps
    /\ ~pending[c].inblock
    /\ LockFree(lock)
    /\ UNCHANGED nops
    /\ LockedCommit(c, [p |-> [pending[c] EXCEPT !.inblock = TRUE], m |-> ManagerOf],
                    CacheOf, c)

\* caller c runs the with block and leaves it
LockedBlock(c) ==
    /\ c \in DOMAIN pending
    /\ pending[c].step \in MemorySteps
    /\ pending[c].inblock
    /\ UNCHANGED nops
    /\ LET r == MemoryBlock([pending[c] EXCEPT !.inblock = FALSE], ManagerOf, CacheOf, now)
       IN LockedCommit(c, r.n, r.c, AfterWith(lock))

\* caller c calls the persistent tier
LockedPersistent(c) ==
    /\ c \in DOMAIN pending
    /\ pending[c].step \in {"persistent_get", "persistent_set"}
    /\ UNCHANGED nops
    /\ LET r == PersistentCall(pending[c], ManagerOf, CacheOf, now)
       IN LockedCommit(c, r.n, r.c, lock)

\* the provider call of caller c ends: it raises, or it returns definition
\* and pronunciation (a single-word lookup returns the one it asked for)
LockedProviderEnds(c, raised, definition, pronunciation) ==
    /\ c \in DOMAIN pending
    /\ pending[c].step = "call"
    /\ UNCHANGED nops
    /\ LockedCommit(c,
                    AfterProvider(pending[c], ManagerOf, now, raised,
                                  [k \in Range(KindsOf(pending[c].op)) |->
                                      IF k = "definition" THEN definition
                                      ELSE pronunciation]),
                    CacheOf, lock)

NextLocked ==
    \/ \E name \in Names, priority \in Priorities, enabled \in BOOLEAN :
           RegisterFirst(name, priority, enabled)
    \/ \E c \in Callers, op \in {"get_definition", "get_pronunciation", "batch_lookup"} :
           LockedEnter(c, op, "a")
    \/ \E c \in Callers : LockedAcquire(c)
    \/ \E c \in Callers : LockedBlock(c)
    \/ \E c \in Callers : LockedPersistent(c)
    \/ \E c \in Callers, raised \in BOOLEAN, definition \in BatchValues,
          pronunciation \in BatchValues :
           LockedProviderEnds(c, raised, definition, pronunciation)
    \/ Tick

SpecLocked == InitLocked /\ [][NextLocked]_vars

(***************************************************************************)
(* EasyPronunciationService._concurrent_batch_lookup.  The calling thread  *)
(* goes through the words, answers a word from the service's _cache or     *)
(* submits a task for it, and then collects the tasks as they complete; the *)
(* threads of the pool take the tasks in the order of submission and run   *)
(* _lookup_single_word.  `last` is the call:                               *)
(*   words      its argument                                               *)
(*   uncached   the words the submit loop has still to go through          *)
(*   cached     the words answered from the _cache                         *)
(*   count      the number of tasks submitted                              *)
(*   calls      the tasks in the order as_completed yielded them           *)
(*   results    the result dict, ret whether the call has returned         *)
(* pending[i] is the i-th task submitted: its word, its pc ("queued",      *)
(* "get_definition", "get_pronunciation", "finished", "collected"), what   *)
(* the two lookups returned and the requests they made.                    *)
(***************************************************************************)
InitPool ==
    /\ InitWith([regs |-> 0, lookups |-> PoolLookups, admin |-> 0, ticks |-> 0,
                 total |-> PoolLookups])
    /\ cache_enabled = FALSE

\* the service whose batch lookup is called
PoolService == "p1"

\* the word lists of the calls
PoolLists == UNION {[1..n -> Words] : n \in 0..PoolLen}

\* what the server can do with a request: answer it, or not reply
PoolReplies == {Response(200, "x"), ConnectionError}

\* whether a call is going on
PoolCalling == last.op = "_concurrent_batch_lookup" /\ ~last.ret

\* the tasks a thread of the pool is running
PoolRunning ==
    {i \in DOMAIN pending : pending[i].pc \in {"get_definition", "get_pronunciation"}}

\* WordInfo(word=word, definition=definition, pronunciation=pronunciation) of
\* a task that finished
TaskInfo(task) == WordInfoDefault(task.word, task.definition, task.pronunciation)

\* result[word] = word_info with the word lowered
CollectedLowered(result, task) == Put(result, Lower(task.word), TaskInfo(task))

\* result[word] = word_info for the word of the future
Collected(result, task) == Put(result, task.word, TaskInfo(task))

PoolFrame ==
    UNCHANGED <<cache_enabled, memory_cache, access_order, max_size, default_ttl,
                persistent_cache, cache_file, services, service_order, stats, now,
                prev, budget, reg_log, recency, streak, lock, stored>>

\* _concurrent_batch_lookup(words) is called
PoolInvoke(words) ==
    /\ ~PoolCalling
    /\ nops.lookups < budget.lookups
    /\ nops' = [nops EXCEPT !.lookups = @ + 1]
    /\ last' = [BlankOp EXCEPT !.op = "_concurrent_batch_lookup", !.words = words,
                               !.uncached = words, !.ret = (words = <<>>)]
    /\ pending' = EmptyMap
    /\ UNCHANGED service_cache
    /\ PoolFrame

\* one round of the submit loop
PoolSubmit ==
    /\ PoolCalling
    /\ last.uncached # <<>>
    /\ LET word == Head(last.uncached)
           sc == service_cache[PoolService]
       IN IF <<"batch", word>> \in DOMAIN sc
          THEN /\ last' = [last EXCEPT !.uncached = Tail(@),
                                       !.cached = Append(@, word),
                                       !.results = Put(@, word, sc[<<"batch", word>>])]
               /\ UNCHANGED pending
          ELSE /\ last' = [last EXCEPT !.uncached = Tail(@), !.count = @ + 1]
               /\ pending' = Put(pending, last.count + 1,
                                 [word |-> word, pc |-> "queued", definition |-> "",
                                  pronunciation |-> "",
                                  http |-> [k \in Kinds |-> <<>>]])
    /\ UNCHANGED <<nops, service_cache>>
    /\ PoolFrame

\* a thread of the pool takes the task submitted first among the queued ones
PoolStart(i) ==
    /\ i \in DOMAIN pending
    /\ pending[i].pc = "queued"
    /\ \A j \in DOMAIN pending : pending[j].pc = "queued" => i <= j
    /\ Cardinality(PoolRunning) < PoolWorkers
    /\ pending' = [pending EXCEPT ![i].pc = "get_definition"]
    /\ UNCHANGED <<nops, last, service_cache>>
    /\ PoolFrame

\* the task after its get_definition or get_pronunciation ran as e
TaskAfter(task, e) ==
    IF task.pc = "get_definition"
    THEN [task EXCEPT !.definition = e.out, !.http["definition"] = e.http,
                      !.pc = "get_pronunciation"]
    ELSE [task EXCEPT !.pronunciation = e.out, !.http["pronunciation"] = e.http,
                      !.pc = "finished"]

\* _lookup_single_word of task i makes its next lookup, against a server that
\* replies as `replies`
PoolLookup(i, replies) ==
    /\ i \in PoolRunning
    /\ LET kind == IF pending[i].pc = "get_definition" THEN "definition"
                   ELSE "pronunciation"
           e == EasyGet(service_cache[PoolService], <<kind, Lower(pending[i].word)>>,
                        HttpRun(EasyRetries, EasyDelay, replies,
                                MakeRequest(EasyRetries, EasyDelay, replies)))
       IN /\ pending' = [pending EXCEPT ![i] = TaskAfter(@, e)]
          /\ service_cache' = [service_cache EXCEPT ![PoolService] = e.sc]
    /\ UNCHANGED <<nops, last>>
    /\ PoolFrame

\* as_completed yields task i: its result goes into the result dict and into
\* the _cache
PoolCollect(i) ==
    /\ PoolCalling
    /\ last.uncached = <<>>
    /\ i \in DOMAIN pending
    /\ pending[i].pc = "finished"
    /\ last' = [last EXCEPT !.results = Collected(@, pending[i]),
                            !.calls = Append(@, i)]
    /\ service_cache' = [service_cache EXCEPT ![PoolService] =
                             Put(@, <<"batch", pending[i].word>>, TaskInfo(pending[i]))]
    /\ pending' = [pending EXCEPT ![i].pc = "collected"]
    /\ UNCHANGED nops
    /\ PoolFrame

\* every task is collected: the pool shuts down and the call returns result
PoolReturn ==
    /\ PoolCalling
    /\ last.uncached = <<>>
    /\ \A i \in DOMAIN pending : pending[i].pc = "collected"
    /\ last' = [last EXCEPT !.ret = TRUE]
    /\ UNCHANGED <<nops, pending, service_cache>>
    /\ PoolFrame

NextPool ==
    \/ \E words \in PoolLists : PoolInvoke(words)
    \/ PoolSubmit
    \/ \E i \in 1..PoolLen : PoolStart(i)
    \/ \E i \in 1..PoolLen, replies \in [1..(EasyRetries + 1) -> PoolReplies] :
           PoolLookup(i, replies)
    \/ \E i \in 1..PoolLen : PoolCollect(i)
    \/ PoolReturn

SpecPool == InitPool /\ [][NextPool]_vars

(***************************************************************************)
(* Properties                                                              *)
(***************************************************************************)
\* the latest operation was a single-word lookup that went to the services
IsLookup(o) == o.op \in {"get_definition", "get_pronunciation"}

\* the query type of a single-word lookup
KindOf(o) == IF o.op = "get_definition" THEN "definition" ELSE "pronunciation"

\* the names an operation called, in the order of the calls
Called(o) == [i \in 1..Len(o.calls) |-> o.calls[i].name]

\* the words an operation handed to some provider
Asked(o) == UNION {Range(o.calls[i].asked) : i \in 1..Len(o.calls)}

\* the latest operation directly follows one of the same kind on the same input
Repeated ==
    /\ prev.op = last.op
    /\ prev.word = last.word
    /\ prev.words = last.words

\* whether the entry the earlier operation left under a key is unexpired at the
\* time of the latest one
StillLive(key) == key \in DOMAIN prev.live /\ last.at <= prev.live[key]

\* C1 as stated: with caching enabled, the second of two lookups of a word in
\* succession, with no cache clear in between, invokes no provider
C1Original ==
    (IsLookup(last) /\ Repeated /\ cache_enabled) => last.calls = <<>>

\* C1: with caching enabled, when the first of two lookups of a word in succession
\* returned a non-empty string, that string is in the cache after it, and while
\* the entry has not expired the second lookup invokes no provider and returns
\* the same string from the cache
C1CachedRepeat ==
    (IsLookup(last) /\ Repeated /\ cache_enabled /\ prev.result # "")
        => LET key == MakeKey(last.word, KindOf(last))
           IN /\ key \in DOMAIN prev.live
              /\ StillLive(key) => /\ last.calls = <<>>
                                   /\ last.hit
                                   /\ last.result = prev.result

\* a second lookup answered from the persistent tier after the clock advanced
C1Witness ==
    /\ IsLookup(last) /\ Repeated /\ cache_enabled
    /\ prev.result = "x"
    /\ last.at > prev.at
    /\ last.hit
    /\ last.calls = <<>>

\* a step that is a single-word lookup which missed the cache
LookupStep ==
    /\ nops'.lookups = nops.lookups + 1
    /\ IsLookup(last')
    /\ last'.word # ""
    /\ ~last'.hit

\* failure_count of a service when a call to it starts: _is_service_available
\* has reset it if the service was failed and its recovery time had passed
CountAtCall(name, reset) ==
    IF reset /\ services[name].status = FAILED
             /\ now - services[name].last_failure > RecoveryTime
    THEN 0 ELSE services[name].failure_count

\* the bookkeeping and the routing of one lookup step
RoutedStep(reset) ==
    LET calls == last'.calls
        n == Len(calls)
        callable == Callable(ManagerOf, now)
    IN /\ n <= Len(callable)
       /\ \A i \in 1..n : calls[i].name = callable[i]
       /\ \A i \in 1..(n - 1) : calls[i].out = Raised
       /\ \A i \in 1..n :
             LET name == calls[i].name
             IN IF calls[i].out = Raised
                THEN /\ services'[name].failure_count = CountAtCall(name, reset) + 1
                     /\ services'[name].total_calls = services[name].total_calls + 1
                     /\ services'[name].last_failure = now
                     /\ services'[name].successful_calls = services[name].successful_calls
                ELSE /\ last'.result = calls[i].out
                     /\ last'.by = name
                     /\ services'[name].successful_calls =
                            services[name].successful_calls + 1
                     /\ services'[name].total_calls = services[name].total_calls + 1
                     /\ services'[name].last_success = now
                     /\ services'[name].last_failure = services[name].last_failure
       /\ (\A i \in 1..n : calls[i].out = Raised) => n = Len(callable)
       /\ \A name \in DOMAIN services :
             name \notin Range(Called(last'))
                 => services'[name].total_calls = services[name].total_calls

\* C2 as stated: on a cache miss the lookup returns the result of the first
\* available provider in routing order that does not raise; each provider tried
\* before it raised and has failureCount and totalCalls one higher than before
\* the lookup and lastFailureAt set; the returning provider has one success
\* recorded; no later provider is invoked
C2Original == [][LookupStep => RoutedStep(FALSE)]_vars

\* C2: the same, with failureCount counted from the value the provider has when
\* it is called, which is 0 for a failed provider whose recovery time has passed
C2Routing == [][LookupStep => RoutedStep(TRUE)]_vars

\* a lookup whose first provider raised and whose second returned
C2Witness ==
    /\ IsLookup(last)
    /\ Len(last.calls) = 2
    /\ last.calls[1].out = Raised
    /\ last.calls[2].out = "x"
    /\ last.result = "x"
    /\ services[last.calls[1].name].failure_count = 1
    /\ services[last.calls[2].name].successful_calls = 1

\* position of the first and of the latest register_service call for a name
FirstRegistered(name) ==
    CHOOSE i \in 1..Len(reg_log) :
        reg_log[i] = name /\ \A j \in 1..(i - 1) : reg_log[j] # name

LatestRegistered(name) ==
    CHOOSE i \in 1..Len(reg_log) :
        reg_log[i] = name /\ \A j \in (i + 1)..Len(reg_log) : reg_log[j] # name

\* the calls of the latest lookup are in ascending priority tier, and within a
\* tier in ascending position, where Position gives each name its position
TriedInOrder(Position(_)) ==
    IsLookup(last) =>
        \A i, j \in 1..Len(last.calls) :
            i < j => LET a == last.calls[i].name
                         b == last.calls[j].name
                     IN \/ services[a].priority < services[b].priority
                        \/ /\ services[a].priority = services[b].priority
                           /\ Position(a) < Position(b)

\* C3 as stated: providers are tried in ascending priority tier, and within a
\* tier in the order of their registrations, a re-registration counting as one
C3Original == TriedInOrder(LatestRegistered)

\* C3: providers are tried in ascending priority tier, and within a tier in the
\* order in which their names were first registered: a re-registration replaces
\* the descriptor and keeps the place of the name
C3FirstRegistration == TriedInOrder(FirstRegistered)

\* a lookup that tried two providers of one tier, the first of them registered
\* again after the second
C3Witness ==
    /\ IsLookup(last)
    /\ Len(last.calls) = 2
    /\ services[last.calls[1].name].priority = services[last.calls[2].name].priority
    /\ LatestRegistered(last.calls[1].name) > LatestRegistered(last.calls[2].name)

\* C4: get_definition and get_pronunciation never raise, and return the empty
\* string when every available provider raised or none was available
C4NeverRaises ==
    IsLookup(last) =>
        /\ ~last.raised
        /\ last.result \in Values
        /\ (~last.hit /\ \A i \in 1..Len(last.calls) : last.calls[i].out = Raised)
               => last.result = ""

\* a lookup in which two providers raised, one exception class each
C4Witness ==
    /\ IsLookup(last)
    /\ Len(last.calls) = 2
    /\ \A i \in 1..2 : last.calls[i].out = Raised
    /\ last.result = ""
    /\ \A name \in DOMAIN services : services[name].failure_count = 1

\* the latest operation was a batch_lookup
IsBatch(o) == o.op = "batch_lookup"

\* C5: batch_lookup returns a mapping whose keys are exactly the distinct input
\* words, whatever the cache holds and whatever the providers do
C5OnePerWord ==
    IsBatch(last) => /\ ~last.raised
                     /\ DOMAIN last.results = Range(last.words)

\* a batch of two words, one answered from the cache and one by nobody
C5Witness ==
    /\ IsBatch(last)
    /\ Len(last.words) = 2
    /\ Len(last.cached) = 1
    /\ \E w \in Range(last.uncached) :
          w \in DOMAIN last.results /\ ~last.results[w].found_definition

\* C6 as stated: in every record batch_lookup returns, found_definition is false
\* exactly when definition is empty, and found_pronunciation is false exactly
\* when pronunciation is empty
C6FoundFlags ==
    IsBatch(last) =>
        \A w \in DOMAIN last.results :
            /\ ~last.results[w].found_definition <=> last.results[w].definition = ""
            /\ ~last.results[w].found_pronunciation <=> last.results[w].pronunciation = ""

\* a record of the mapping is the not-found filler
NotFound(info) == ~info.found_definition /\ ~info.found_pronunciation

\* C7 as stated: a word of a batch is reported not found only after every
\* available provider was asked for it
C7FallsThrough ==
    IsBatch(last) =>
        \A w \in Range(last.uncached) :
            NotFound(last.results[w]) =>
                \A name \in DOMAIN services :
                    Available(ManagerOf, name, last.at) =>
                        \E i \in 1..Len(last.calls) :
                            /\ last.calls[i].name = name
                            /\ w \in Range(last.calls[i].asked)

\* a step that is a batch_lookup of a non-empty list
BatchStep ==
    /\ nops'.lookups = nops.lookups + 1
    /\ IsBatch(last')
    /\ last'.words # <<>>

\* C8: batch_lookup never raises and returns a complete mapping; a provider whose
\* batch call raises has one failure recorded, is not called again in the batch,
\* and the uncached words go, all of them, to the next available provider in
\* priority order
C8BatchFailover ==
    [][BatchStep =>
        LET calls == last'.calls
            n == Len(calls)
            callable == Callable(ManagerOf, now)
        IN /\ ~last'.raised
           /\ DOMAIN last'.results = Range(last'.words)
           /\ n <= Len(callable)
           /\ \A i \in 1..n : /\ calls[i].name = callable[i]
                               /\ calls[i].asked = last'.uncached
           /\ \A i \in 1..(n - 1) : calls[i].out = Raised
           /\ (last'.uncached # <<>> /\ \A i \in 1..n : calls[i].out = Raised)
                  => n = Len(callable)
           /\ \A i \in 1..n :
                 calls[i].out = Raised =>
                     LET name == calls[i].name
                         before == IF name \in DOMAIN stats.service_failures
                                   THEN stats.service_failures[name] ELSE 0
                     IN /\ services'[name].total_calls = services[name].total_calls + 1
                        /\ services'[name].failure_count = CountAtCall(name, TRUE) + 1
                        /\ services'[name].last_failure = now
                        /\ services'[name].status \in {DEGRADED, FAILED}
                        /\ stats'.service_failures[name] = before + 1
    ]_vars

\* a batch whose first provider raised and whose second answered
C8Witness ==
    /\ IsBatch(last)
    /\ Len(last.calls) = 2
    /\ last.calls[1].out = Raised
    /\ last.calls[2].out = "ok"
    /\ \E w \in DOMAIN last.results : last.results[w].definition = "x"

\* what the two tiers hold for a word before a step: the memory entry if it is
\* unexpired, else the persistent one if it is, else NoValue
CachedBefore(word, kind) ==
    LET key == MakeKey(word, kind)
        live(tier) == /\ key \in DOMAIN tier
                      /\ now - tier[key].timestamp <= tier[key].ttl
    IN IF live(memory_cache) THEN memory_cache[key].data
       ELSE IF live(persistent_cache) THEN persistent_cache[key].data
       ELSE NoValue

\* a word with both parts cached before a step
CompleteHit(word) ==
    /\ CachedBefore(word, "definition") # NoValue
    /\ CachedBefore(word, "pronunciation") # NoValue

\* C9: a word of a batch with definition and pronunciation both cached gets them
\* from the cache and is handed to no provider, and a batch of such words alone
\* calls no provider
C9CacheFirst ==
    [][BatchStep =>
        /\ \A w \in Range(last'.words) :
              CompleteHit(w) =>
                  /\ w \notin Asked(last')
                  /\ last'.results[w].definition = CachedBefore(w, "definition")
                  /\ last'.results[w].pronunciation = CachedBefore(w, "pronunciation")
        /\ (\A w \in Range(last'.words) : CompleteHit(w)) => last'.calls = <<>>
    ]_vars

\* a batch with one word answered from the cache and another handed to a provider
C9Witness ==
    /\ IsBatch(last)
    /\ last.cached # <<>>
    /\ last.uncached # <<>>
    /\ last.calls # <<>>
    /\ Range(last.cached) \cap Asked(last) = {}

\* the earlier of two batches resolved the word
Resolved(w) ==
    prev.results[w].definition # "" \/ prev.results[w].pronunciation # ""

\* the latest batch directly follows a batch over the same words, with caching
\* enabled and every entry the earlier one left still unexpired
RepeatedBatch ==
    /\ IsBatch(last) /\ Repeated /\ last.words # <<>>
    /\ cache_enabled
    /\ \A key \in DOMAIN prev.live : StillLive(key)

\* C10 as stated: the second batch returns the same definition and pronunciation
\* for every word, and hands no word the first batch resolved to a provider
C10Original ==
    RepeatedBatch =>
        \A w \in Range(last.words) :
            /\ last.results[w].definition = prev.results[w].definition
            /\ last.results[w].pronunciation = prev.results[w].pronunciation
            /\ Resolved(w) => w \notin Asked(last)

\* no other word of the batch has the same normalized form
OwnKey(w) == \A v \in Range(last.words) : Lower(v) = Lower(w) => v = w

\* C10: the second batch hands no word the first batch resolved to a provider,
\* and returns the same definition and pronunciation for each such word whose
\* normalized form no other word of the batch shares
C10Resumable ==
    RepeatedBatch =>
        \A w \in Range(last.words) :
            Resolved(w) =>
                /\ w \notin Asked(last)
                /\ OwnKey(w) =>
                      /\ last.results[w].definition = prev.results[w].definition
                      /\ last.results[w].pronunciation = prev.results[w].pronunciation

\* a second batch, after the clock advanced, that answers from the cache a word
\* the first batch got from a provider
C10Witness ==
    /\ RepeatedBatch
    /\ last.at > prev.at
    /\ last.calls = <<>>
    /\ \E w \in Range(last.words) : Resolved(w) /\ last.results[w].definition = "x"

(***************************************************************************)
(* Properties of the cache classes                                         *)
(***************************************************************************)
\* a step that is one cache operation named op
CacheStep(op) == nops'.admin = nops.admin + 1 /\ last'.op = op

\* C11: after any sequence of set, get, delete, clear and cleanup_expired calls a
\* MemoryCache holds at most max_size entries, for every max_size >= 0
C11SizeBound == Cardinality(DOMAIN memory_cache) <= max_size

\* C12: in a MemoryCache that can hold an entry, set of a new key at capacity
\* evicts exactly one entry, the one whose last successful get or set lies
\* furthest back; any other set evicts nothing and leaves the size unchanged or
\* one larger
C12EvictsLeastRecent ==
    [][(CacheStep("memory.set") /\ max_size > 0) =>
           IF Cardinality(DOMAIN memory_cache) >= max_size
              /\ last'.key \notin DOMAIN memory_cache
           THEN DOMAIN memory_cache' =
                    ((DOMAIN memory_cache) \ {Head(recency)}) \cup {last'.key}
           ELSE DOMAIN memory_cache' = (DOMAIN memory_cache) \cup {last'.key}]_vars

\* what get of a tier answers at clock t for the entry e it holds under the key,
\* as far as the TTL rule decides it
AnswersByTTL(e, t, answer) ==
    /\ e.ttl = NoTime => answer = e.data
    /\ (e.ttl # NoTime /\ t - e.timestamp < e.ttl) => answer = e.data
    /\ (e.ttl # NoTime /\ t - e.timestamp > e.ttl) => answer = NoValue

\* the entry set(key, value, ttl) of a tier leaves at clock t
StoredAs(tier, o, t, ttl) ==
    /\ o.key \in DOMAIN tier
    /\ tier[o.key] = CacheEntry(o.result, t, ttl)

\* C13: in both tiers set stores the value with createdAt = now and the given
\* ttl; get returns the stored value whenever now - createdAt < ttl and nothing
\* whenever now - createdAt > ttl, and an entry without ttl never expires
C13TTL ==
    [][/\ CacheStep("memory.set") =>
              StoredAs(memory_cache', last', now,
                       IF last'.ttl = NoTime THEN default_ttl ELSE last'.ttl)
       /\ CacheStep("persistent.set") =>
              StoredAs(persistent_cache', last', now, last'.ttl)
       /\ (CacheStep("memory.get") /\ last'.key \in DOMAIN memory_cache) =>
              /\ AnswersByTTL(memory_cache[last'.key], now, last'.result)
              /\ last'.result = NoValue => last'.key \notin DOMAIN memory_cache'
       /\ (CacheStep("persistent.get") /\ last'.key \in DOMAIN persistent_cache) =>
              /\ AnswersByTTL(persistent_cache[last'.key], now, last'.result)
              /\ last'.result = NoValue => last'.key \notin DOMAIN persistent_cache'
      ]_vars

\* a get of the persistent tier that found its entry past its TTL: the entry is
\* gone from the tier and still in the file written by the set
C13Witness ==
    /\ last.op = "persistent.get"
    /\ last.result = NoValue
    /\ last.key \in DOMAIN cache_file
    /\ last.key \notin DOMAIN persistent_cache
    /\ cache_file[last.key].ttl # NoTime
    /\ last.at - cache_file[last.key].timestamp > cache_file[last.key].ttl

\* the keys of a tier whose entries are expired at clock t
ExpiredKeys(tier, t) ==
    {k \in DOMAIN tier : tier[k].ttl # NoTime /\ t - tier[k].timestamp > tier[k].ttl}

\* tier `after` is tier `before` without the keys of gone, every other entry as
\* it was
Without(before, after, gone) ==
    /\ DOMAIN after = (DOMAIN before) \ gone
    /\ \A k \in DOMAIN after : after[k] = before[k]

\* C14: cleanup_expired removes from each tier exactly the entries expired at the
\* time of the call, leaves every other entry and its place in the LRU order as
\* it was, and returns the number removed from each tier and their sum
C14CleanupExact ==
    [][CacheStep("cache.cleanup_expired") =>
           LET m == ExpiredKeys(memory_cache, now)
               p == ExpiredKeys(persistent_cache, now)
           IN /\ Without(memory_cache, memory_cache', m)
              /\ access_order' = SelectSeq(access_order, LAMBDA e : e.k \notin m)
              /\ recency' = SelectSeq(recency, LAMBDA k : k \notin m)
              /\ Without(persistent_cache, persistent_cache', p)
              /\ last'.results.memory_cleaned = Cardinality(m)
              /\ last'.results.persistent_cleaned = Cardinality(p)
              /\ last'.results.total_cleaned = Cardinality(m) + Cardinality(p)
      ]_vars

\* a cleanup that removed an entry from each tier and left one in the memory tier
C14Witness ==
    /\ last.op = "cache.cleanup_expired"
    /\ last.results.memory_cleaned >= 1
    /\ last.results.persistent_cleaned >= 1
    /\ memory_cache # EmptyMap

\* a tier holds an unexpired entry under key k at the current clock
Holds(tier, k) == k \in DOMAIN tier /\ k \notin ExpiredKeys(tier, now)

\* the cache holds an unexpired entry under key k in one of its tiers
Present(k) == Holds(memory_cache, k) \/ Holds(persistent_cache, k)

\* the value the cache holds under a present key: the memory tier comes first
CachedValue(k) ==
    IF Holds(memory_cache, k) THEN memory_cache[k].data ELSE persistent_cache[k].data

\* C15: get_word_info returns a (definition, pronunciation) pair only when both
\* are present and unexpired in the cache, and then the cached pair; with only
\* one of them or neither cached it returns nothing
C15BothOrNothing ==
    [][CacheStep("cache.get_word_info") =>
           LET d == MakeKey(last'.word, "definition")
               p == MakeKey(last'.word, "pronunciation")
           IN /\ last'.hit => /\ Present(d) /\ Present(p)
                              /\ last'.results = <<CachedValue(d), CachedValue(p)>>
              /\ ~(Present(d) /\ Present(p)) => ~last'.hit
      ]_vars

\* a get_word_info that found the definition alone and returned nothing
C15Witness ==
    /\ last.op = "cache.get_word_info"
    /\ ~last.hit
    /\ last.results[1] \in TierValues
    /\ last.results[2] = NoValue

\* what a miss in both tiers leaves of a tier: nothing changed at all (exact), or
\* nothing but the expired entry under the key removed
AfterMiss(before, after, k, exact) ==
    IF exact THEN after = before ELSE Without(before, after, {k} \cap DOMAIN before)

\* get_definition / get_pronunciation in its three cases: a memory hit, a
\* persistent hit with promotion, a miss in both tiers
TieredGet(exact) ==
    CacheStep("cache.get") =>
        LET k == last'.key
        IN IF Holds(memory_cache, k)
           THEN /\ last'.result = memory_cache[k].data
                /\ memory_cache' = memory_cache
                /\ persistent_cache' = persistent_cache
           ELSE IF Holds(persistent_cache, k)
                THEN /\ last'.result = persistent_cache[k].data
                     /\ k \in DOMAIN memory_cache'
                     /\ memory_cache'[k] = CacheEntry(last'.result, now, default_ttl)
                     /\ persistent_cache' = persistent_cache
                ELSE /\ last'.result = NoValue
                     /\ AfterMiss(memory_cache, memory_cache', k, exact)
                     /\ AfterMiss(persistent_cache, persistent_cache', k, exact)
                     /\ cache_file' = cache_file

\* C16 as stated: a memory hit does not consult the persistent tier, a persistent
\* hit is returned and promoted with createdAt = now and the memory TTL, and a
\* miss in both tiers returns nothing and changes neither tier
C16Original == [][TieredGet(TRUE)]_vars

\* C16: the same, but a miss in both tiers removes the expired entry under the
\* key from each tier that held one and changes nothing else
C16Promotion == [][TieredGet(FALSE)]_vars

\* a get that promoted an entry persisted earlier into the memory tier
C16Witness ==
    /\ last.op = "cache.get"
    /\ last.result \in TierValues
    /\ last.key \in DOMAIN memory_cache
    /\ last.key \in DOMAIN persistent_cache
    /\ memory_cache[last.key].timestamp = last.at
    /\ persistent_cache[last.key].timestamp < last.at
    /\ persistent_cache[last.key].ttl # default_ttl

\* the key of the other query type for the word of key k
OtherKind(k) ==
    <<IF k[1] = "definition" THEN "pronunciation" ELSE "definition", k[2]>>

\* tier `after` holds under key k what tier `before` held, or nothing as before
SameUnder(before, after, k) ==
    /\ (k \in DOMAIN after) = (k \in DOMAIN before)
    /\ k \in DOMAIN before => after[k] = before[k]

\* set evicted the entry under k from the memory tier: the tier was full, the key
\* set was new, and no access stamp was older than that of k
Evicted(k, new) ==
    /\ k \in DOMAIN memory_cache
    /\ k \notin DOMAIN memory_cache'
    /\ Cardinality(DOMAIN memory_cache) >= max_size
    /\ new \notin DOMAIN memory_cache
    /\ \A i, j \in 1..Len(access_order) :
           access_order[i].k = k => access_order[i].t <= access_order[j].t

\* set_definition / set_pronunciation writes both tiers; exact says that the
\* entry of the other kind stays in the memory tier whatever its size
WriteThrough(exact) ==
    CacheStep("cache.set") =>
        LET k == last'.key
        IN /\ k = MakeKey(last'.word, k[1])
           /\ k \in DOMAIN memory_cache'
           /\ memory_cache'[k] = CacheEntry(last'.result, now, default_ttl)
           /\ k \in DOMAIN persistent_cache'
           /\ persistent_cache'[k] = CacheEntry(last'.result, now, PersistentTTL)
           /\ SameUnder(persistent_cache, persistent_cache', OtherKind(k))
           /\ \/ SameUnder(memory_cache, memory_cache', OtherKind(k))
              \/ ~exact /\ Evicted(OtherKind(k), k)

\* C17 as stated: set(word, kind, value) leaves value in both tiers under the
\* key of (kind, word), with the memory TTL and the persistent TTL, and leaves
\* the entries of the other kind for the word unchanged
C17Original == [][WriteThrough(TRUE)]_vars

\* C17: the same, but the memory entry of the other kind is evicted when the
\* memory tier is full, the key is new and that entry is the least recently used
C17WriteThrough == [][WriteThrough(FALSE)]_vars

\* a set next to cached entries of the other kind, the two tiers holding the
\* value with different TTLs
C17Witness ==
    /\ last.op = "cache.set"
    /\ last.key \in DOMAIN memory_cache
    /\ last.key \in DOMAIN persistent_cache
    /\ memory_cache[last.key].timestamp = last.at
    /\ memory_cache[last.key].ttl # persistent_cache[last.key].ttl
    /\ OtherKind(last.key) \in DOMAIN memory_cache
    /\ OtherKind(last.key) \in DOMAIN persistent_cache
    /\ memory_cache[OtherKind(last.key)].timestamp < last.at

(***************************************************************************)
(* Properties of the health tracking                                       *)
(***************************************************************************)
\* the status k failed calls in a row lead to, with threshold FailureThreshold
Ladder(k) ==
    IF k >= FailureThreshold THEN FAILED
    ELSE IF k >= FailureThreshold \div 2 THEN DEGRADED
    ELSE ACTIVE

HealthStep == nops'.lookups = nops.lookups + 1 /\ IsLookup(last')

\* a step that is register_service, enable_service or disable_service of n
ManualStep(n) ==
    /\ nops' # nops
    /\ last'.op \in {"register_service", "enable_service", "disable_service"}
    /\ last'.name = n

\* the call the latest operation made to n raised
RaisedBy(o, n) == \E i \in 1..Len(o.calls) : o.calls[i].name = n /\ o.calls[i].out = Raised

\* the lookup of this step went through every service without getting an answer
TriedAll ==
    /\ HealthStep
    /\ last'.word # ""
    /\ ~last'.hit
    /\ \A i \in 1..Len(last'.calls) : last'.calls[i].out = Raised

\* what one step does to a service n that is failed, with its last failure
\* `elapsed` ago
FailedServiceStep(n, elapsed) ==
    /\ (HealthStep /\ n \in Range(Called(last'))) =>
           /\ elapsed > RecoveryTime
           /\ services'[n].failure_count = IF RaisedBy(last', n) THEN 1 ELSE 0
           /\ services'[n].status = IF RaisedBy(last', n) THEN Ladder(1) ELSE ACTIVE
    /\ (TriedAll /\ elapsed > RecoveryTime) => n \in Range(Called(last'))
    /\ services'[n].status # FAILED =>
           \/ ManualStep(n)
           \/ HealthStep /\ n \in Range(Called(last')) /\ elapsed > RecoveryTime
    /\ now' # now => services'[n] = services[n]

\* C19: a failed service is not called while now - last_failure <= RecoveryTime;
\* short of register_service, enable_service and disable_service it leaves the
\* failed status only in a lookup that reaches it with now - last_failure >
\* RecoveryTime, which calls it with failure_count reset to 0 and status active;
\* the clock advancing changes nothing of it
C19LazyRecovery ==
    [][\A n \in DOMAIN services :
           services[n].status = FAILED =>
               FailedServiceStep(n, now - services[n].last_failure)]_vars

\* a lookup called a service that was failed and has recovered, and the call
\* failed again
C19Witness ==
    \E n \in DOMAIN services :
        /\ IsLookup(last)
        /\ RaisedBy(last, n)
        /\ streak[n].sofar > FailureThreshold
        /\ streak[n].fresh = 1
        /\ services[n].failure_count = 1

\* the call the latest operation made to n returned
ReturnedBy(o, n) == \E i \in 1..Len(o.calls) : o.calls[i].name = n /\ o.calls[i].out # Raised

\* C20: one successful call to a service with fewer than FailureThreshold
\* failures resets its failure_count to 0 and leaves it active, also when it was
\* degraded
C20SuccessResets ==
    [][\A n \in DOMAIN services :
           (/\ HealthStep
            /\ ReturnedBy(last', n)
            /\ services[n].failure_count < FailureThreshold)
               => /\ services'[n].failure_count = 0
                  /\ services'[n].status = ACTIVE]_vars

\* a service whose two calls were a failure, which degraded it, and then the
\* success of the latest lookup
C20Witness ==
    \E n \in DOMAIN services :
        /\ IsLookup(last)
        /\ ReturnedBy(last, n)
        /\ nops.admin = 0
        /\ services[n].total_calls = 2
        /\ services[n].successful_calls = 1
        /\ services[n].last_failure # NoTime
        /\ Ladder(1) = DEGRADED
        /\ services[n].failure_count = 0
        /\ services[n].status = ACTIVE

\* what enable_service / disable_service of this step does to the table of
\* services: the named descriptor gets the status (and, on enable, a
\* failure_count of 0), nothing else changes, and the answer is whether the name
\* is registered
OverrideStep(op, status, resets) ==
    (nops'.admin = nops.admin + 1 /\ last'.op = op) =>
        IF last'.name \in DOMAIN services
        THEN /\ last'.ret = TRUE
             /\ services' =
                    [services EXCEPT
                        ![last'.name].status = status,
                        ![last'.name].failure_count = IF resets THEN 0 ELSE @]
        ELSE /\ last'.ret = FALSE
             /\ services' = services

\* C24: enable_service of a registered name sets status active and failure_count
\* 0 whatever the status was and returns True, disable_service sets status
\* disabled and returns True, and for an unregistered name both return False
\* and leave the table of services unchanged
C24ManualOverride ==
    [][/\ OverrideStep("enable_service", ACTIVE, TRUE)
       /\ OverrideStep("disable_service", DISABLED, FALSE)]_vars

\* enable_service of a service that had failed FailureThreshold times in a row
C24Witness ==
    /\ last.op = "enable_service"
    /\ last.ret = TRUE
    /\ last.name \in DOMAIN services
    /\ services[last.name].successful_calls = 0
    /\ services[last.name].total_calls = FailureThreshold
    /\ services[last.name].failure_count = 0
    /\ services[last.name].status = ACTIVE

\* C22: the first call to a service that was failed and has been let through
\* after the recovery time decides its state: it stays active if the call
\* returns, and it is failed again, and so left out of the next lookup, if the
\* call raises
C22ProbeDecides ==
    [][\A n \in DOMAIN services :
           (/\ HealthStep
            /\ services[n].status = FAILED
            /\ n \in Range(Called(last')))
               => services'[n].status =
                      IF RaisedBy(last', n) THEN FAILED ELSE ACTIVE]_vars

\* C26: a service that raised APIAuthenticationError is not called again until
\* enable_service (or a new register_service) of it, however much time passes
C26AuthDisables ==
    [][\A n \in DOMAIN services :
           (streak[n].auth /\ nops' # nops) => n \notin Range(Called(last'))]_vars

(***************************************************************************)
(* Properties of the providers' HTTP requests                              *)
(***************************************************************************)
\* the latest operation is a finished _make_request
RequestDone == last.op = "_make_request"

\* a reply that is an error: no response, or a response with an error status
Failing(reply) == reply.exc \/ reply.status >= 400

\* a network error or a 5xx status
Transient(reply) == reply.exc \/ reply.status >= 500

\* the attempts of run r that got a reply of the given status
AttemptsWith(r, status) ==
    {i \in 1..r.sent : ~r.replies[i].exc /\ r.replies[i].status = status}

\* attempt i is the last one of run r and no wait follows it
EndsAt(r, i) == i = r.sent /\ Len(r.slept) = i - 1

\* C27: a request makes between 1 and max_retries + 1 attempts and ends with a
\* response or an exception; an attempt that gets a non-error response is the
\* last and the response is returned; before attempt k + 1 it waits
\* retry_delay * k, a strictly increasing wait; when every one of the
\* max_retries + 1 replies is a network error or a 5xx status, it makes all
\* max_retries + 1 attempts and raises HTTPClientError
C27BoundedRetries ==
    RequestDone =>
        LET r == last.http[1]
        IN /\ r.sent \in 1..(r.max_retries + 1)
           /\ r.outcome # NoValue
           /\ \A i \in 1..r.sent :
                  ~Failing(r.replies[i]) =>
                      /\ i = r.sent
                      /\ r.outcome = "response"
                      /\ r.body = r.replies[i].body
           /\ r.outcome = "response" => ~Failing(r.replies[r.sent])
           /\ r.slept = [k \in 1..(r.sent - 1) |-> r.retry_delay * k]
           /\ \A k \in 1..(Len(r.slept) - 1) : r.slept[k] < r.slept[k + 1]
           /\ (\A i \in 1..(r.max_retries + 1) : Transient(r.replies[i])) =>
                  /\ r.sent = r.max_retries + 1
                  /\ r.outcome = "HTTPClientError"

\* a request that got through at its third attempt, after two waits
C27Witness ==
    /\ RequestDone
    /\ last.http[1].retry_delay > 1
    /\ last.http[1].sent = 3
    /\ last.http[1].outcome = "response"
    /\ Len(last.http[1].slept) = 2
    /\ Transient(last.http[1].replies[1])

\* C28: an attempt that gets a 401 response ends the request with
\* APIAuthenticationError and one that gets a 429 response ends it with
\* RateLimitError: no attempt and no wait follows, so a request whose first
\* reply is 401 or 429 makes exactly one attempt, whatever max_retries is
C28NoRetryOnAuthOrRateLimit ==
    RequestDone =>
        LET r == last.http[1]
        IN /\ \A i \in AttemptsWith(r, 401) :
                  EndsAt(r, i) /\ r.outcome = "APIAuthenticationError"
           /\ \A i \in AttemptsWith(r, 429) :
                  EndsAt(r, i) /\ r.outcome = "RateLimitError"
           /\ (~r.replies[1].exc /\ r.replies[1].status \in {401, 429}) =>
                  r.sent = 1 /\ r.slept = <<>>

\* a request of a service with max_retries = MaxRetries that met 429 at once
C28Witness ==
    /\ RequestDone
    /\ last.http[1].max_retries = MaxRetries
    /\ MaxRetries > 0
    /\ AttemptsWith(last.http[1], 429) = {1}
    /\ last.http[1].sent = 1
    /\ last.http[1].outcome = "RateLimitError"

\* C29: an attempt that gets a 404 response, or a response whose body is not
\* JSON, is the last of its request, and the attempts that are followed by
\* another are the ones that met a network error or a 5xx status
C29PermanentNotRetried ==
    RequestDone =>
        LET r == last.http[1]
        IN /\ \A i \in AttemptsWith(r, 404) : EndsAt(r, i)
           /\ \A i \in 1..r.sent : r.replies[i].body = Malformed => EndsAt(r, i)
           /\ \A i \in 1..(r.sent - 1) : Transient(r.replies[i])

\* how many failures the manager has recorded against service n
FailuresOf(st, n) ==
    IF n \in DOMAIN st.service_failures THEN st.service_failures[n] ELSE 0

\* the lookup of this step called a service whose request ended with 401 or 429
RejectedStep ==
    /\ HealthStep
    /\ last'.http # <<>>
    /\ last'.http[1].outcome \in {"APIAuthenticationError", "RateLimitError"}

\* C25: when the request a service makes for a word ends with 401 or 429, the
\* manager records one failure against that service and calls the next
\* available service for the word
C25FailsOver ==
    [][RejectedStep =>
          /\ RaisedBy(last', last'.calls[1].name)
          /\ FailuresOf(stats', last'.calls[1].name) =
                 FailuresOf(stats, last'.calls[1].name) + 1
          /\ Len(Callable(ManagerOf, now)) > 1 =>
                 /\ Len(last'.calls) > 1
                 /\ last'.calls[2].name = Callable(ManagerOf, now)[2]]_vars

(***************************************************************************)
(* Properties of the health tracking under concurrent callers              *)
(***************************************************************************)
\* this step is _record_success for service n
SuccessRecorded(n) ==
    /\ last'.op = "_record_success"
    /\ last'.name = n
    /\ services'[n].successful_calls = services[n].successful_calls + 1

\* C21: a success recorded for a service whose status is failed (its call began
\* before the failures that made it failed were recorded) makes it active with
\* failure_count 0
C21SuccessRevives ==
    [][\A n \in DOMAIN services :
           (SuccessRecorded(n) /\ services[n].status = FAILED) =>
               /\ services'[n].status = ACTIVE
               /\ services'[n].failure_count = 0]_vars

\* a provider call to n begins in this step
CallBegins(n) ==
    \E c \in DOMAIN pending' :
        /\ pending'[c].at = n
        /\ c \in DOMAIN pending => pending[c].at # n

\* C23: a disabled service stays disabled and no call to it begins, whatever
\* calls end and however much time passes, until enable_service (or a new
\* register_service) of it; that holds too for the end of a call to it that was
\* going on when it was disabled
C23DisabledStays ==
    [][\A n \in DOMAIN services :
           (services[n].status = DISABLED /\ ~ManualStep(n)) =>
               /\ services'[n].status = DISABLED
               /\ ~CallBegins(n)]_vars

(***************************************************************************)
(* Properties of the MemoryCache under concurrent callers                  *)
(***************************************************************************)
\* the callers that are inside a with block
InBlock == {c \in DOMAIN pending : pending[c].pc # "enter"}

\* at most one caller is inside a with block, and it is the one with the lock
MutualExclusion ==
    /\ Cardinality(InBlock) <= 1
    /\ \A c \in InBlock : lock = c
    /\ InBlock = {} => lock = NoValue

\* what the call p does when it runs alone, from start to end, on cache c
Alone(p, c, t) ==
    CASE p.op = "set" ->
            [c |-> MemSet(c, p.key, p.value, p.given, t), result |-> NoValue,
             ret |-> FALSE, count |-> 0]
      [] p.op = "get" ->
            [c |-> MemGet(c, p.key, t).c, result |-> MemGet(c, p.key, t).val,
             ret |-> FALSE, count |-> 0]
      [] p.op = "delete" ->
            [c |-> MemDelete(c, p.key).c, result |-> NoValue,
             ret |-> MemDelete(c, p.key).ret, count |-> 0]
      [] p.op = "clear" ->
            [c |-> MemClear(c), result |-> NoValue, ret |-> FALSE, count |-> 0]
      [] p.op = "cleanup_expired" ->
            [c |-> MemCleanupExpired(c, t).c, result |-> NoValue, ret |-> FALSE,
             count |-> MemCleanupExpired(c, t).n]
      [] p.op = "stats" ->
            [c |-> c, result |-> NoValue, ret |-> FALSE,
             count |-> Cardinality(DOMAIN c.mem)]

\* the call p, at the end of its with block, has done to the cache it found
\* when it got the lock what it does when it runs alone, the result included
SameAsAlone(p, a) ==
    /\ memory_cache = a.c.mem
    /\ access_order = a.c.acc
    /\ p.result = a.result
    /\ p.ret = a.ret
    /\ p.count = a.count

DataIn(tier) == {tier[k].data : k \in DOMAIN tier}

\* C37: the manager never stores an empty string in its cache: no entry of
\* either tier holds "", and a single-word lookup answered from the cache never
\* returns ""
C37NoEmptyCached ==
    /\ "" \notin DataIn(memory_cache)
    /\ "" \notin DataIn(persistent_cache)
    /\ (IsLookup(last) /\ last.hit) => last.result # ""

\* C39: the manager never counts more cache hits than requests
C39HitsWithinRequests == stats.cache_hits <= stats.total_requests

\* C40: with non-concurrent callers the status of every service agrees with
\* its failure_count: failed means at least failure_threshold failures in a
\* row, degraded at least half of that (rounded down) and fewer than the
\* threshold, active fewer than half
C40StatusAgrees ==
    \A n \in DOMAIN services :
        /\ services[n].status = FAILED =>
               services[n].failure_count >= FailureThreshold
        /\ services[n].status = DEGRADED =>
               /\ FailureThreshold \div 2 <= services[n].failure_count
               /\ services[n].failure_count < FailureThreshold
        /\ services[n].status = ACTIVE =>
               services[n].failure_count < FailureThreshold \div 2

\* a batch lookup left one service failed and another degraded
C40Witness ==
    /\ last.op = "batch_lookup"
    /\ Len(last.calls) = 2
    /\ \E n, k \in DOMAIN services :
           /\ services[n].status = FAILED
           /\ services[k].status = DEGRADED

(***************************************************************************)
(* Properties of the recording of outcomes by concurrent callers           *)
(***************************************************************************)
\* no caller is inside _record_success or _record_failure
NoneRecording == \A c \in DOMAIN pending : pending[c].pc \in {"idle", "call"}

\* the calls to service n recorded so far with the given outcome
Recorded(n, outcome) ==
    {<<c, i>> \in (DOMAIN pending) \X (1..RecordingLookups) :
        /\ i <= Len(pending[c].log)
        /\ pending[c].log[i] = [name |-> n, outcome |-> outcome]}

\* the status and failure_count that s successes and f failures leave on
\* service n of manager m, recorded one after the other in every order
RECURSIVE SerialPairs(_, _, _, _)

SerialPairs(m, n, s, f) ==
    IF s = 0 /\ f = 0
    THEN {<<m.services[n].status, m.services[n].failure_count>>}
    ELSE (IF s > 0 THEN SerialPairs(RecordSuccess(m, n, now), n, s - 1, f) ELSE {})
         \cup (IF f > 0 THEN SerialPairs(RecordFailure(m, n, now), n, s, f - 1) ELSE {})

\* service n as register_service left it
AsRegistered(n) ==
    [ManagerOf EXCEPT
        !.services[n].status = IF @ = DISABLED THEN DISABLED ELSE ACTIVE,
        !.services[n].failure_count = 0]

\* C32: no recorded outcome is lost under concurrent lookups: whenever no
\* caller is inside a recording function, total_calls of every service is the
\* number of outcomes recorded for it, total_calls is successful_calls plus
\* the number of failures recorded, and status and failure_count are what the
\* recorded outcomes leave when applied one after the other in some order
C32NoLostUpdate ==
    NoneRecording =>
        \A n \in DOMAIN services :
            LET s == Cardinality(Recorded(n, Succeeded))
                f == Cardinality(Recorded(n, Failed))
            IN /\ services[n].total_calls = s + f
               /\ services[n].total_calls = services[n].successful_calls + f
               /\ <<services[n].status, services[n].failure_count>>
                      \in SerialPairs(AsRegistered(n), n, s, f)

(***************************************************************************)
(* Properties of the PersistentCache and its file                          *)
(***************************************************************************)
\* what persistent_cache.get(key) returns at clock t when _cache is d
GetOf(d, key, t) == PersGet([pers |-> d], key, t).val

\* the step constructs a new PersistentCache over the file
Reopens == nops'.admin # nops.admin /\ last'.op = "PersistentCache"

\* C35: when no write to the file has failed, a new PersistentCache
\* constructed over the file answers every get as the old instance does at
\* that time, and the unexpired entries of the two are the same, with their
\* value, timestamp and ttl
C35SurvivesRestart ==
    [][Reopens =>
           /\ \A key \in TwoKeys :
                  GetOf(persistent_cache', key, now) = GetOf(persistent_cache, key, now)
           /\ \A key \in DOMAIN persistent_cache' :
                  ~IsExpired(persistent_cache'[key], now) =>
                      /\ key \in DOMAIN persistent_cache
                      /\ persistent_cache'[key] = persistent_cache[key]
           /\ \A key \in DOMAIN persistent_cache :
                  ~IsExpired(persistent_cache[key], now) =>
                      /\ key \in DOMAIN persistent_cache'
                      /\ persistent_cache'[key] = persistent_cache[key]]_vars

\* a new instance was constructed after the clock advanced, and it holds an
\* entry that was set with a ttl and has not expired, next to an entry that
\* has expired
C35Witness ==
    /\ last.op = "PersistentCache"
    /\ ~last.raised
    /\ \E key \in DOMAIN persistent_cache :
           /\ persistent_cache[key].ttl # NoTime
           /\ persistent_cache[key].timestamp < now
           /\ ~IsExpired(persistent_cache[key], now)
    /\ \E key \in DOMAIN persistent_cache : IsExpired(persistent_cache[key], now)

\* C34: a failure of the file never reaches the caller: no operation of the
\* PersistentCache raises, its constructor included; a PersistentCache
\* constructed over a file that cannot be read or unpickled is empty; and set,
\* delete, clear and cleanup_expired have their effect on _cache whatever
\* happens to the write
C34StoreFailuresContained ==
    /\ ~last.raised
    /\ (last.op = "PersistentCache" /\ (last.name # "ok" \/ IsCorrupt(cache_file))) =>
           persistent_cache = EmptyMap
    /\ last.op = "persistent.set" =>
           /\ last.key \in DOMAIN persistent_cache
           /\ persistent_cache[last.key] = CacheEntry(last.result, last.at, last.ttl)
    /\ last.op = "persistent.delete" => last.key \notin DOMAIN persistent_cache
    /\ last.op = "persistent.clear" => persistent_cache = EmptyMap
    /\ last.op = "persistent.cleanup_expired" =>
           \A key \in DOMAIN persistent_cache :
               ~IsExpired(persistent_cache[key], last.at)

\* C31: the operations of a PersistentCache used by concurrent callers do not
\* disturb one another: no get, set, delete, clear or cleanup_expired ends by
\* an exception, and a get returns None or the value that was set under its key
C31NoInterference ==
    \A c \in DOMAIN pending :
        /\ pending[c].raised = NoValue
        /\ pending[c].result \in {NoValue, "x"}

(***************************************************************************)
(* Properties of the DictionaryCache under concurrent callers              *)
(***************************************************************************)
\* C38: the two tiers agree once the calls made have returned: a key that has
\* an unexpired entry in the memory cache and one in the persistent cache has
\* the same data in both
C38TiersCoherent ==
    (\A c \in DOMAIN pending : pending[c].pc = "done") =>
        \A key \in (DOMAIN memory_cache) \cap (DOMAIN persistent_cache) :
            (/\ ~IsExpired(memory_cache[key], now)
             /\ ~IsExpired(persistent_cache[key], now)) =>
                memory_cache[key].data = persistent_cache[key].data

(***************************************************************************)
(* Properties of the lookups of concurrent callers through the cache       *)
(***************************************************************************)
\* C33: no provider call is made under the lock of the memory cache: a caller
\* whose lookup is inside a provider's get_definition, get_pronunciation or
\* batch_lookup does not hold the lock, and the lock is only held inside the
\* with block of a MemoryCache method
C33NoCallUnderLock ==
    \A c \in DOMAIN pending :
        /\ pending[c].step = "call" => lock # c
        /\ lock = c => (pending[c].inblock /\ pending[c].step \in MemorySteps)

\* a caller is in a provider call that its lookup reached after a miss in
\* both tiers, while the other caller is inside a with block
C33Witness ==
    \E c, d \in DOMAIN pending :
        /\ pending[c].step = "call"
        /\ pending[c].phase = "cache"
        /\ lock = d
        /\ pending[d].inblock

(***************************************************************************)
(* Properties of the concurrent batch lookup of a provider                 *)
(***************************************************************************)
\* whether the lookup of this query type by the task failed
LookupFailed(task, kind) ==
    task.http[kind] # <<>> /\ ~EasyParsed(task.http[kind][1])

\* whether the task got this query type from the server
LookupResolved(task, kind) ==
    task.http[kind] # <<>> /\ EasyParsed(task.http[kind][1])

\* C36: the concurrent batch lookup returns exactly one entry per distinct
\* input word whatever the order in which the tasks complete; the entry of a
\* word not answered from the _cache is the result of a task of that word; a
\* task whose lookups fail yields empty definition and pronunciation, and a
\* task whose lookups the server answers yields the answers, whatever happens
\* to the tasks of the other words
C36OneEntryPerWord ==
    (last.op = "_concurrent_batch_lookup" /\ last.ret) =>
        /\ DOMAIN last.results = Range(last.words)
        /\ \A w \in DOMAIN last.results :
              /\ last.results[w].word = Lower(w)
              /\ \/ w \in Range(last.cached)
                 \/ \E i \in DOMAIN pending :
                       /\ pending[i].word = w
                       /\ last.results[w].definition = pending[i].definition
                       /\ last.results[w].pronunciation = pending[i].pronunciation
        /\ \A i \in DOMAIN pending :
              /\ LookupFailed(pending[i], "definition") => pending[i].definition = ""
              /\ LookupFailed(pending[i], "pronunciation") => pending[i].pronunciation = ""
              /\ LookupResolved(pending[i], "definition") =>
                     pending[i].definition = pending[i].http["definition"][1].body
              /\ LookupResolved(pending[i], "pronunciation") =>
                     pending[i].pronunciation = pending[i].http["pronunciation"][1].body

\* a call has returned whose tasks completed in another order than they were
\* submitted, with a word whose two lookups failed and another word whose two
\* lookups were answered
C36Witness ==
    /\ last.op = "_concurrent_batch_lookup"
    /\ last.ret
    /\ \E j \in 1..(Len(last.calls) - 1) : last.calls[j] > last.calls[j + 1]
    /\ \E i, k \in DOMAIN pending :
          /\ pending[i].word # pending[k].word
          /\ LookupFailed(pending[i], "definition")
          /\ LookupFailed(pending[i], "pronunciation")
          /\ last.results[pending[i].word].definition = ""
          /\ last.results[pending[i].word].pronunciation = ""
          /\ LookupResolved(pending[k], "definition")
          /\ LookupResolved(pending[k], "pronunciation")
          /\ last.results[pending[k].word].definition = "x"
          /\ last.results[pending[k].word].pronunciation = "x"
====
